---- MODULE Spec2Model ----
(***************************************************************************)
(* Live-reload pipeline of cursor-buddy-mcp: the file watcher              *)
(* (internal/monitor), the reload coordinator (BuddyHandlers.loadAllData), *)
(* the per-domain stores (handlers.*Handler) and the search facade         *)
(* (search.SearchManager).                                                 *)
(*                                                                         *)
(* Strings that the code inspects character by character (event names)    *)
(* are sequences of one-character strings.                                 *)
(***************************************************************************)
EXTENDS Integers, Sequences, FiniteSets, TLC

\* ---------------------------------------------------------------- bounds
\* external stimuli in one run: file changes, injected failures and point
\* mutations together
MaxStimuli == 2
\* injected I/O or index-engine failures in one run
MaxFaults == 1
\* request-side point mutations in one run
MaxMutations == 1
\* error values the notification source sends in one run
MaxErrors == 1
\* lines of the todo file inspected line by line
MaxLines == 2
\* calls of UpdateTodoStatus on that file in one run
MaxCalls == 1
\* records in a backup list written from outside
MaxListed == 2
\* calls of SearchManager operations followed in one run
MaxFacadeCalls == 2

\* ------------------------------------------------------- string helpers
\* strings.HasPrefix
HasPrefix(s, p) ==
    /\ Len(s) >= Len(p)
    /\ SubSeq(s, 1, Len(p)) = p

\* strings.HasSuffix
HasSuffix(s, p) ==
    /\ Len(s) >= Len(p)
    /\ SubSeq(s, Len(s) - Len(p) + 1, Len(s)) = p

\* the path without its trailing separators (first step of filepath.Base)
RECURSIVE StripSlashes(_)
StripSlashes(s) ==
    IF Len(s) > 0 /\ s[Len(s)] = "/" THEN StripSlashes(SubSeq(s, 1, Len(s) - 1)) ELSE s

\* filepath.Base: "." for the empty path, "/" for a path of separators only,
\* otherwise the last element of the path
Base(path) ==
    IF Len(path) = 0 THEN <<".">>
    ELSE LET s == StripSlashes(path)
             cut == {i \in 1..Len(s) : s[i] = "/"}
             last == IF cut = {} THEN 0 ELSE CHOOSE i \in cut : \A j \in cut : j <= i
         IN  IF Len(s) = 0 THEN <<"/">> ELSE SubSeq(s, last + 1, Len(s))

DotMd == <<".", "m", "d">>
DotJson == <<".", "j", "s", "o", "n">>
DotSql == <<".", "s", "q", "l">>
DotSwp == <<".", "s", "w", "p">>
DotTmp == <<".", "t", "m", "p">>
DotTxt == <<".", "t", "x", "t">>
Tilde == <<"~">>
Dot == <<".">>
Slash == <<"/">>

\* ----------------------------------------------------------- fsnotify.Op
\* Op is a bit mask; a mask is modelled as the set of its bits, so that
\* op & fsnotify.Write == 0 reads "Write" \notin op.
OpBits == {"Create", "Write", "Remove", "Rename", "Chmod"}
OpMasks == (SUBSET OpBits) \ {{}}

\* ---------------------------------------------------- isRelevantEvent
\* mutant: the operation test compares the mask for equality with Write or
\* Create instead of testing the bits
isRelevantEventEqOp(event) ==
    IF \/ HasPrefix(Base(event.name), Dot)
       \/ HasSuffix(event.name, Tilde)
       \/ HasSuffix(event.name, DotSwp)
       \/ HasSuffix(event.name, DotTmp)
    THEN FALSE
    ELSE IF /\ ~HasSuffix(event.name, DotMd)
            /\ ~HasSuffix(event.name, DotJson)
            /\ ~HasSuffix(event.name, DotSql)
    THEN FALSE
    ELSE IF event.op # {"Write"} /\ event.op # {"Create"}
    THEN FALSE
    ELSE TRUE

\* mutant: the operation test is missing
isRelevantEventAnyOp(event) ==
    IF \/ HasPrefix(Base(event.name), Dot)
       \/ HasSuffix(event.name, Tilde)
       \/ HasSuffix(event.name, DotSwp)
       \/ HasSuffix(event.name, DotTmp)
    THEN FALSE
    ELSE IF /\ ~HasSuffix(event.name, DotMd)
            /\ ~HasSuffix(event.name, DotJson)
            /\ ~HasSuffix(event.name, DotSql)
    THEN FALSE
    ELSE TRUE

\* mutant: the operation test looks at the Write bit only
isRelevantEventWriteOnly(event) ==
    IF \/ HasPrefix(Base(event.name), Dot)
       \/ HasSuffix(event.name, Tilde)
       \/ HasSuffix(event.name, DotSwp)
       \/ HasSuffix(event.name, DotTmp)
    THEN FALSE
    ELSE IF /\ ~HasSuffix(event.name, DotMd)
            /\ ~HasSuffix(event.name, DotJson)
            /\ ~HasSuffix(event.name, DotSql)
    THEN FALSE
    ELSE IF "Write" \notin event.op
    THEN FALSE
    ELSE TRUE

\* FileMonitor.isRelevantEvent
isRelevantEvent(event) ==
    IF \/ HasPrefix(Base(event.name), Dot)
       \/ HasSuffix(event.name, Tilde)
       \/ HasSuffix(event.name, DotSwp)
       \/ HasSuffix(event.name, DotTmp)
    THEN FALSE
    ELSE IF /\ ~HasSuffix(event.name, DotMd)
            /\ ~HasSuffix(event.name, DotJson)
            /\ ~HasSuffix(event.name, DotSql)
    THEN FALSE
    ELSE IF "Write" \notin event.op /\ "Create" \notin event.op
    THEN FALSE
    ELSE TRUE


\* ------------------------------------------------------------ file names
RulesDir == <<"r", "u", "l", "e", "s">>
KnowledgeDir == <<"k", "n", "o", "w", "l", "e", "d", "g", "e">>
DatabaseDir == <<"d", "a", "t", "a", "b", "a", "s", "e">>
TodosDir == <<"t", "o", "d", "o", "s">>
HistoryDir == <<"h", "i", "s", "t", "o", "r", "y">>
BackupsDir == <<"b", "a", "c", "k", "u", "p", "s">>

FileA == <<"a">> \o DotMd
FileB == <<"b">> \o DotMd
FileK == <<"k">> \o DotMd
FileT == <<"t">> \o DotMd
FileH == <<"h">> \o DotJson
SchemaSql == <<"s", "c", "h", "e", "m", "a">> \o DotSql
MetadataJson == <<"m", "e", "t", "a", "d", "a", "t", "a">> \o DotJson

Digits == <<"1", "2", "3", "4", "5", "6", "7", "8", "9">>
\* the file AddEntry writes for its k-th entry: <entry id>.json
EntryFile(k) == <<"e", Digits[k]>> \o DotJson

\* mutant: knowledge is loaded before rules
LoadOrderSwapped == <<"knowledge", "rules", "database", "todos", "history", "backups">>

\* the six domains, in the order loadAllData loads them
LoadOrder == <<"rules", "knowledge", "database", "todos", "history", "backups">>
Domains == {LoadOrder[i] : i \in 1..Len(LoadOrder)}

\* the directory Start watches for a domain, relative to the buddy path
DirOf(d) ==
    CASE d = "rules" -> RulesDir
      [] d = "knowledge" -> KnowledgeDir
      [] d = "database" -> DatabaseDir
      [] d = "todos" -> TodosDir
      [] d = "history" -> HistoryDir
      [] d = "backups" -> BackupsDir

\* the files the model lets a domain directory hold, in directory (name) order
DirOrder(d) ==
    CASE d = "rules" -> <<FileA, FileB>>
      [] d = "knowledge" -> <<FileK>>
      [] d = "database" -> <<SchemaSql>>
      [] d = "todos" -> <<FileT>>
      [] d = "history" -> [k \in 1..MaxMutations |-> EntryFile(k)] \o <<FileH>>
      [] d = "backups" -> <<MetadataJson>>
DirFiles(d) == {DirOrder(d)[i] : i \in 1..Len(DirOrder(d))}

\* filepath.Join(dir, file)
PathOf(d, f) == DirOf(d) \o Slash \o f

\* contents of a readable content file; for a todo file 1 is "- [ ] task"
\* and 2 is "- [x] task"
Contents == {1, 2}
\* the state of one file: absent, present and readable with content c, or
\* present but unreadable or malformed ("bad"); the backups metadata file
\* holds a list of records, every other file one content value
NoContent(d) == IF d = "backups" THEN <<>> ELSE 0
Absent(d) == [st |-> "absent", c |-> NoContent(d)]
Bad(d) == [st |-> "bad", c |-> NoContent(d)]
Ok(c) == [st |-> "ok", c |-> c]

\* ------------------------------------------------------------- records
Rec(id, val, ts) == [id |-> id, val |-> val, ts |-> ts]
\* search.FromRule, FromKnowledge, FromTodo, FromHistoryEntry, FromTable,
\* FromBackup: the indexed document of a record
FromRecord(r) == [id |-> r.id, val |-> r.val]

\* the parser of a domain applied to the content c of file f: loadRuleFile,
\* loadKnowledgeFile, parseSchema, loadTodoFile, loadHistoryFile and the
\* json.Unmarshal of BackupHandler.Load
ParseFile(d, f, c) ==
    CASE d = "backups" -> c
      [] d = "history" -> <<Rec(<<d, f>>, c, c)>>
      [] OTHER -> <<Rec(<<d, f>>, c, 0)>>

\* the suffix test each Load applies to the entries of its directory
IsCandidate(d, f) ==
    CASE d = "history" -> HasSuffix(f, DotJson)
      [] d = "database" -> f = SchemaSql
      [] d = "backups" -> f = MetadataJson
      [] OTHER -> HasSuffix(f, DotMd)

\* sort.Slice(entries, Timestamp.After): newest first; slices of fewer than
\* twelve elements are insertion-sorted, which keeps equal timestamps in order
RECURSIVE InsertNewestFirst(_, _)
InsertNewestFirst(sorted, r) ==
    IF sorted = <<>> THEN <<r>>
    ELSE IF r.ts > sorted[Len(sorted)].ts
         THEN Append(InsertNewestFirst(SubSeq(sorted, 1, Len(sorted) - 1), r), sorted[Len(sorted)])
         ELSE Append(sorted, r)
RECURSIVE SortNewestFirst(_)
SortNewestFirst(s) ==
    IF s = <<>> THEN <<>>
    ELSE InsertNewestFirst(SortNewestFirst(SubSeq(s, 1, Len(s) - 1)), s[Len(s)])

RECURSIVE Concat(_)
Concat(ss) == IF ss = <<>> THEN <<>> ELSE Head(ss) \o Concat(Tail(ss))

SeqIds(s) == {s[i].id : i \in 1..Len(s)}
SeqDocs(s) == {FromRecord(s[i]) : i \in 1..Len(s)}

\* bleve Index.Index(id, doc): insert, or overwrite the document under id
IndexPut(docs, doc) == {x \in docs : x.id # doc.id} \cup {doc}
RECURSIVE IndexPutAll(_, _)
IndexPutAll(docs, s) ==
    IF s = <<>> THEN docs ELSE IndexPutAll(IndexPut(docs, FromRecord(Head(s))), Tail(s))


\* --------------------------------------------------------------- state
VARIABLES
    disk,       \* disk[d][f]: the state of file f in the directory of domain d
    events,     \* fm.watcher.Events: the notifications not yet received
    coll,       \* coll[d]: the in-memory collection of the store of domain d
    idx,        \* idx[d]: sm.indexes[d], [closed, docs]
    wlock,      \* wlock[d]: a Load holds the store's mu exclusively
    wpc,        \* the watch loop: at its "select", or in a "reload"
    ld,         \* the Load the reload is in: [i, pc, list, aside, err]
    rd,         \* the request-side reader: [pc, d, q, res]
    nChanges,   \* external file changes so far
    nFaults,    \* injected failures so far
    nMut,       \* point mutations so far
    probe,      \* the event the filter specification starts with
    watch,      \* the watcher's channels and context, as the loop sees them
    tf,         \* one todo file line by line, with its todos and documents
    sm,         \* the SearchManager under concurrent calls: map, mutex, callers
    hist        \* history of the run, read by the properties only

vars == <<disk, events, coll, idx, wlock, wpc, ld, rd, nChanges, nFaults, nMut,
          probe, watch, tf, sm, hist>>

\* the records a successful Load of d builds from the disk dk
Expected(d, dk) ==
    LET seen == SelectSeq(DirOrder(d), LAMBDA f : dk[d][f].st = "ok" /\ IsCandidate(d, f))
        recs == Concat([i \in 1..Len(seen) |-> ParseFile(d, seen[i], dk[d][seen[i]].c)])
    IN  IF d = "history" THEN SortNewestFirst(recs) ELSE recs

InitDisk ==
    [d \in Domains |->
        [f \in DirFiles(d) |->
            IF d = "backups" \/ f \notin {FileA, FileB, FileK, FileT, FileH, SchemaSql}
            THEN Absent(d) ELSE Ok(1)]]

\* the directories Start hands to watcher.Add: the buddy folder and the six
\* below it
WatchedDirs == {"root"} \cup Domains

\* the watcher as Start leaves it: context live, both channels open and empty
WatchOpen ==
    [ done |-> FALSE,           \* ctx.Done() is closed
      evClosed |-> FALSE,       \* fm.watcher.Events is closed
      errClosed |-> FALSE,      \* fm.watcher.Errors is closed
      errs |-> 0,               \* error values waiting in fm.watcher.Errors
      exitBy |-> "none",        \* the case of the select that returned
      logged |-> 0,             \* error values the loop has logged
      stopAt |-> 0,             \* reloads begun when the stop was signalled
      midReload |-> FALSE,      \* a reload was running at that moment
      dirs |-> WatchedDirs,     \* directories watcher.Add registered
      addFailed |-> {},         \* directories for which watcher.Add failed
      started |-> "nil" ]       \* what Start returned
\* no todo file under inspection
NoTodoFile == [pc |-> "off"]
\* the SearchManager when no caller is followed through its calls
NoFacade == [mu |-> 0]

IdleLoad == [i |-> 0, pc |-> "none", list |-> <<>>, aside |-> <<>>, err |-> "none"]
IdleReader == [pc |-> "idle", d |-> "rules", q |-> 0, res |-> <<>>, hits |-> {},
               inLoad |-> FALSE, nested |-> FALSE]
NoEvent == [name |-> <<>>, op |-> {}]

InitHist ==
    [ reloads |-> 0,            \* invocations of ReloadData
      relevant |-> 0,           \* relevant events the loop has received
      order |-> <<>>,           \* the Loads the current reload has invoked
      result |-> "none",        \* how the last reload returned
      failed |-> 0,             \* position of the Load that failed in it
      preColl |-> <<>>,         \* coll[d] when the current Load was called
      preDocs |-> {},           \* the documents of idx[d] at that moment
      snapColl |-> [d \in Domains |-> <<>>],   \* coll when the reload started
      snapIdx |-> [d \in Domains |-> {}],      \* documents when it started
      dirty |-> {},             \* domains whose files changed since their Load
      good |-> [d \in Domains |->           \* what the last reload that
                  [coll |-> Expected(d, InitDisk),   \* returned nil left
                   docs |-> SeqDocs(Expected(d, InitDisk))]],
      stale |-> FALSE ]         \* the last file change raised no relevant event

\* the state NewBuddyHandlers leaves: every store and index loaded from disk
InitData ==
    /\ disk = InitDisk
    /\ coll = [d \in Domains |-> Expected(d, InitDisk)]
    /\ idx = [d \in Domains |-> [closed |-> FALSE, docs |-> SeqDocs(Expected(d, InitDisk))]]
    /\ wlock = [d \in Domains |-> FALSE]
    /\ ld = IdleLoad
    /\ rd = IdleReader
    /\ nChanges = 0
    /\ nFaults = 0
    /\ nMut = 0
    /\ hist = InitHist

\* the state runServer reaches once the stores are loaded and Start has
\* returned: the watch loop at its select
InitStores ==
    /\ InitData
    /\ wpc = "select"
    /\ watch = WatchOpen

Init ==
    /\ InitStores
    /\ sm = NoFacade
    /\ events = <<>>
    /\ probe = NoEvent
    /\ tf = NoTodoFile

\* what a search of the whole index of d returns: nothing from a closed handle
DocsOf(d) == IF idx[d].closed THEN {} ELSE idx[d].docs
DocIds(d) == {x.id : x \in DocsOf(d)}
CollIds(d) == SeqIds(coll[d])


\* ------------------------------------------------- the file system (env)
Stimuli == nChanges + nFaults + nMut
\* the run's budget allows one more file change, failure, mutation
MayChange == Stimuli < MaxStimuli
MayFail == nFaults < MaxFaults /\ Stimuli < MaxStimuli
MayMutate == nMut < MaxMutations /\ Stimuli < MaxStimuli

\* files an external editor touches: every modelled file but the entry files,
\* which only AddEntry writes
EditableFiles(d) == DirFiles(d) \ {EntryFile(k) : k \in 1..MaxMutations}

\* the backup list an external writer puts into metadata.json
ForeignBackup == Rec(<<"backups", <<"x">>>>, 1, 1)

\* contents an external writer may give file f of d when it holds s
NewContents(d, s) ==
    IF d = "backups" THEN {<<>>, <<ForeignBackup>>} \ {s.c} ELSE Contents \ {s.c}

\* the notification the kernel queues for one operation on dir(d)/f
EventOf(d, f, bit) == [name |-> PathOf(d, f), op |-> {bit}]

\* the claim's reading of "relevant", written from the four conditions of the
\* specification and not from the code
RelevantBySpec(e) ==
    /\ Base(e.name)[1] # "."
    /\ \A suf \in {Tilde, DotSwp, DotTmp} : ~HasSuffix(e.name, suf)
    /\ \E ext \in {DotMd, DotJson, DotSql} : HasSuffix(e.name, ext)
    /\ e.op \cap {"Create", "Write"} # {}

\* mutant: the watch is recursive, every change below the buddy path is
\* notified
DeliveredRecursive(d, evs) == evs

\* the notifications the watcher queues for changes in the directory of d: none
\* when watcher.Add did not register it
Delivered(d, evs) == IF d \in watch.dirs THEN evs ELSE <<>>

Touch(d, f, s, e, raisesReload) ==
    /\ MayChange
    /\ nChanges' = nChanges + 1
    /\ disk' = [disk EXCEPT ![d][f] = s]
    /\ events' = events \o Delivered(d, <<e>>)
    /\ hist' = [hist EXCEPT !.dirty = IF wpc = "reload" THEN @ \cup {d} ELSE @,
                            !.stale = ~(raisesReload /\ d \in watch.dirs)]
    /\ UNCHANGED <<coll, idx, wlock, wpc, ld, rd, nFaults, nMut, probe, watch, tf, sm>>

\* a file is created with readable content
FsCreate(D) ==
    \E d \in D : \E f \in EditableFiles(d) :
        /\ disk[d][f].st = "absent"
        /\ \E c \in NewContents(d, disk[d][f]) :
              Touch(d, f, Ok(c), EventOf(d, f, "Create"), TRUE)

\* a file is rewritten with different readable content
FsWrite(D) ==
    \E d \in D : \E f \in EditableFiles(d) :
        /\ disk[d][f].st # "absent"
        /\ \E c \in NewContents(d, disk[d][f]) :
              Touch(d, f, Ok(c), EventOf(d, f, "Write"), TRUE)

\* a file is written again with the content it has
FsTouch(D) ==
    \E d \in D : \E f \in EditableFiles(d) :
        /\ disk[d][f].st = "ok"
        /\ Touch(d, f, disk[d][f], EventOf(d, f, "Write"), TRUE)

\* a JSON file is rewritten with malformed content
FsCorrupt(D) ==
    \E d \in D \cap {"history", "backups"} : \E f \in EditableFiles(d) :
        /\ disk[d][f].st = "ok"
        /\ Touch(d, f, Bad(d), EventOf(d, f, "Write"), TRUE)

\* a file loses its read permission
FsChmod(D) ==
    \E d \in D \ {"history", "backups"} : \E f \in EditableFiles(d) :
        /\ disk[d][f].st = "ok"
        /\ Touch(d, f, Bad(d), EventOf(d, f, "Chmod"), FALSE)

\* a file is deleted
FsRemove(D) ==
    \E d \in D : \E f \in EditableFiles(d) :
        /\ disk[d][f].st # "absent"
        /\ Touch(d, f, Absent(d), EventOf(d, f, "Remove"), FALSE)

\* the backup lists an external writer may put into metadata.json: records
\* whose identifier is whatever the file says, the same one twice included
ListedBackups == {Rec(<<"backups", <<"x">>>>, 1, 1), Rec(<<"backups", <<"x">>>>, 2, 2)}
BackupLists == UNION {[1..n -> ListedBackups] : n \in 0..MaxListed}

\* metadata.json is created or rewritten with a backup list
FsWriteMetadata ==
    \E c \in BackupLists \ {disk["backups"][MetadataJson].c} :
        Touch("backups", MetadataJson, Ok(c),
              EventOf("backups", MetadataJson,
                      IF disk["backups"][MetadataJson].st = "absent"
                      THEN "Create" ELSE "Write"),
              TRUE)

\* mutant: the index is opened again with the documents it had
ReindexAllKeepDocs(ix, d) == [ix EXCEPT ![d].closed = FALSE]

\* --------------------------------------------------- SearchManager
\* SearchManager.ReindexAll, success: the index is closed, removed and
\* created again, empty
ReindexAll(ix, d) == [ix EXCEPT ![d] = [closed |-> FALSE, docs |-> {}]]
\* SearchManager.ReindexAll, failure of RemoveAll or initializeIndex: the map
\* keeps the handle that was closed
ReindexAllFailed(ix, d) == [ix EXCEPT ![d].closed = TRUE]
\* SearchManager.IndexDocument / UpdateDocument on an open index
IndexDocument(ix, d, r) == [ix EXCEPT ![d].docs = IndexPut(@, FromRecord(r))]
\* SearchManager.DeleteDocument
DeleteDocument(ix, d, id) == [ix EXCEPT ![d].docs = {x \in @ : x.id # id}]


\* ------------------------------------------------------- the watch loop
\* mutant: the loop drains the queue and reloads once for all it received
WatchLoopEventDebounced ==
    /\ wpc = "select"
    /\ ~watch.evClosed
    /\ events # <<>>
    /\ LET n == Cardinality({i \in 1..Len(events) : RelevantBySpec(events[i])})
           counted == [hist EXCEPT !.relevant = @ + n]
       IN  /\ events' = <<>>
           /\ IF \E i \in 1..Len(events) : isRelevantEvent(events[i])
              THEN /\ wpc' = "reload"
                   /\ ld' = [IdleLoad EXCEPT !.i = 1, !.pc = "call"]
                   /\ hist' = [counted EXCEPT !.reloads = @ + 1, !.order = <<>>,
                                              !.result = "running", !.failed = 0,
                                              !.dirty = {},
                                              !.snapColl = coll,
                                              !.snapIdx = [d \in Domains |-> DocsOf(d)]]
              ELSE /\ UNCHANGED <<wpc, ld>>
                   /\ hist' = counted
    /\ UNCHANGED <<disk, coll, idx, wlock, rd, nChanges, nFaults, nMut, probe, watch, tf, sm>>

\* mutant: the loop starts every reload on a goroutine of its own
\* (go fm.handler.ReloadData()) and selects again at once, so that the next
\* relevant event starts a reload beside the one in progress
WatchLoopEventSpawned ==
    /\ wpc \in {"select", "reload"}
    /\ ~watch.evClosed
    /\ events # <<>>
    /\ LET e == Head(events)
           counted == [hist EXCEPT !.relevant = @ + (IF RelevantBySpec(e) THEN 1 ELSE 0)]
       IN  /\ events' = Tail(events)
           /\ IF isRelevantEvent(e)
              THEN /\ wpc' = "reload"
                   /\ ld' = [IdleLoad EXCEPT !.i = 1, !.pc = "call"]
                   /\ hist' = [counted EXCEPT !.reloads = @ + 1, !.order = <<>>,
                                              !.result = "running", !.failed = 0,
                                              !.dirty = {},
                                              !.snapColl = coll,
                                              !.snapIdx = [d \in Domains |-> DocsOf(d)]]
              ELSE /\ UNCHANGED <<wpc, ld>>
                   /\ hist' = counted
    /\ UNCHANGED <<disk, coll, idx, wlock, rd, nChanges, nFaults, nMut, probe, watch, tf, sm>>

\* FileMonitor.watchLoop, case event := <-fm.watcher.Events: the event is
\* received and, when relevant, handler.ReloadData() is called on the loop's
\* own goroutine; the loop is back at its select when ReloadData has returned
WatchLoopEvent ==
    /\ wpc = "select"
    /\ ~watch.evClosed
    /\ events # <<>>
    /\ LET e == Head(events)
           counted == [hist EXCEPT !.relevant = @ + (IF RelevantBySpec(e) THEN 1 ELSE 0)]
       IN  /\ events' = Tail(events)
           /\ IF isRelevantEvent(e)
              THEN /\ wpc' = "reload"
                   /\ ld' = [IdleLoad EXCEPT !.i = 1, !.pc = "call"]
                   /\ hist' = [counted EXCEPT !.reloads = @ + 1, !.order = <<>>,
                                              !.result = "running", !.failed = 0,
                                              !.dirty = {},
                                              !.snapColl = coll,
                                              !.snapIdx = [d \in Domains |-> DocsOf(d)]]
              ELSE /\ UNCHANGED <<wpc, ld>>
                   /\ hist' = counted
    /\ UNCHANGED <<disk, coll, idx, wlock, rd, nChanges, nFaults, nMut, probe, watch, tf, sm>>

\* ------------------------------------------------------------ Start
\* mutant: a directory that cannot be watched ends Start with the error
StartStrict ==
    /\ wpc = "new"
    /\ watch.started = "no"
    /\ \E failed \in SUBSET WatchedDirs :
        IF failed = {}
        THEN /\ wpc' = "select"
             /\ watch' = [watch EXCEPT !.dirs = WatchedDirs, !.started = "nil"]
        ELSE /\ watch' = [watch EXCEPT !.addFailed = failed, !.started = "err"]
             /\ UNCHANGED wpc
    /\ UNCHANGED <<disk, events, coll, idx, wlock, ld, rd, nChanges, nFaults, nMut,
                   probe, tf, sm, hist>>

\* FileMonitor.Start: the watcher is created, watcher.Add is called for the
\* seven directories, a failure of it is logged, the watch loop is started and
\* nil returned; only a failure to create the watcher is returned
Start ==
    /\ wpc = "new"
    /\ watch.started = "no"
    /\ \/ \E failed \in SUBSET WatchedDirs :
            /\ wpc' = "select"
            /\ watch' = [watch EXCEPT !.dirs = WatchedDirs \ failed,
                                      !.addFailed = failed, !.started = "nil"]
       \/ /\ watch' = [watch EXCEPT !.started = "err"]
          /\ UNCHANGED wpc
    /\ UNCHANGED <<disk, events, coll, idx, wlock, ld, rd, nChanges, nFaults, nMut,
                   probe, tf, sm, hist>>

\* ---------------------------------------- the watcher's other channels
\* the owner of the context cancels it (runServer's ctx)
Cancel ==
    /\ ~watch.done
    /\ wpc # "exited"
    /\ watch' = [watch EXCEPT !.done = TRUE,
                              !.stopAt = IF watch.evClosed THEN @ ELSE hist.reloads,
                              !.midReload = wpc = "reload"]
    /\ UNCHANGED <<disk, events, coll, idx, wlock, wpc, ld, rd, nChanges, nFaults,
                   nMut, probe, tf, hist, sm>>

\* the notification source closes its Events channel; what it had not yet
\* sent is never received
CloseEvents ==
    /\ ~watch.evClosed
    /\ wpc # "exited"
    /\ watch' = [watch EXCEPT !.evClosed = TRUE,
                              !.stopAt = IF watch.done THEN @ ELSE hist.reloads]
    /\ UNCHANGED <<disk, events, coll, idx, wlock, wpc, ld, rd, nChanges, nFaults,
                   nMut, probe, tf, hist, sm>>

\* the notification source closes its Errors channel
CloseErrors ==
    /\ ~watch.errClosed
    /\ wpc # "exited"
    /\ watch' = [watch EXCEPT !.errClosed = TRUE]
    /\ UNCHANGED <<disk, events, coll, idx, wlock, wpc, ld, rd, nChanges, nFaults,
                   nMut, probe, tf, hist, sm>>

\* the notification source sends an error value
WatcherError ==
    /\ ~watch.errClosed
    /\ wpc # "exited"
    /\ watch.errs + watch.logged < MaxErrors
    /\ watch' = [watch EXCEPT !.errs = @ + 1]
    /\ UNCHANGED <<disk, events, coll, idx, wlock, wpc, ld, rd, nChanges, nFaults,
                   nMut, probe, tf, hist, sm>>

\* the loop returns from the case named by; its deferred watcher.Close() runs
WatchLoopReturn(by) ==
    /\ wpc' = "exited"
    /\ watch' = [watch EXCEPT !.exitBy = by]
    /\ UNCHANGED <<disk, events, coll, idx, wlock, ld, rd, nChanges, nFaults, nMut,
                   probe, tf, hist, sm>>

\* mutant: an error value ends the loop
WatchLoopErrorFatal ==
    /\ wpc = "select"
    /\ watch.errs > 0
    /\ WatchLoopReturn("errors")

\* FileMonitor.watchLoop, case <-ctx.Done(): return. A select with several
\* ready cases takes any of them, so this case competes with the others
WatchLoopDone ==
    /\ wpc = "select"
    /\ watch.done
    /\ WatchLoopReturn("ctx")

\* FileMonitor.watchLoop, case event, ok := <-Events with ok false: return
WatchLoopEventsClosed ==
    /\ wpc = "select"
    /\ watch.evClosed
    /\ WatchLoopReturn("events")

\* FileMonitor.watchLoop, case err, ok := <-Errors with ok true: the error is
\* logged and the loop selects again
WatchLoopError ==
    /\ wpc = "select"
    /\ watch.errs > 0
    /\ wpc' = wpc
    /\ watch' = [watch EXCEPT !.errs = @ - 1, !.logged = @ + 1]
    /\ UNCHANGED <<disk, events, coll, idx, wlock, ld, rd, nChanges, nFaults, nMut,
                   probe, tf, hist, sm>>

\* FileMonitor.watchLoop, case err, ok := <-Errors with ok false: return
WatchLoopErrorsClosed ==
    /\ wpc = "select"
    /\ watch.errClosed
    /\ watch.errs = 0
    /\ WatchLoopReturn("errors")

\* ------------------------------------------------------------ the stores
\* ioutil.ReadDir / filepath.Walk / os.Stat at the start of a Load: the
\* entries present in the directory, in name order
Listing(d) == SelectSeq(DirOrder(d), LAMBDA f : disk[d][f].st # "absent")

\* the directory of d is not there, or holds nothing: ReadDir fails with
\* IsNotExist and Load returns nil, Walk hands its callback the lstat error
\* which Load drops, os.Stat of schema.sql or metadata.json fails and the
\* file is skipped; in each case as if the directory were there and empty
NoDirectory(d) == \A f \in DirFiles(d) : disk[d][f].st = "absent"

\* DatabaseHandler.Load builds its DatabaseInfo aside; the other five Loads
\* start with  h.<collection> = []<Record>{}
ClearsFirst(d) == d # "database"

\* what ReindexAll does to the file system: os.RemoveAll of indexes/<type>,
\* then bleve.New makes the directory again with index_meta.json and the
\* store in it. All of it is below the directory indexes, which Start does
\* not add to the watcher (as is every later write of IndexDocument)
IndexesDir == <<"i", "n", "d", "e", "x", "e", "s">>
IndexMetaJson == <<"i", "n", "d", "e", "x", "_", "m", "e", "t", "a">> \o DotJson
ReindexEvents(d) ==
    LET dir == IndexesDir \o Slash \o DirOf(d)
    IN  << [name |-> dir, op |-> {"Remove"}],
           [name |-> dir, op |-> {"Create"}],
           [name |-> dir \o Slash \o IndexMetaJson, op |-> {"Create"}] >>

\* the Load returns err; its deferred mu.Unlock() runs
LoadReturn(d, err) ==
    /\ ld' = [ld EXCEPT !.pc = "ret", !.err = err, !.list = <<>>, !.aside = <<>>]
    /\ wlock' = [wlock EXCEPT ![d] = FALSE]

\* loadAllData runs in NewBuddyHandlers, before runServer starts the monitor
\* ("boot"), and in ReloadData, called by the watch loop ("reload")
InLoadAllData == wpc \in {"boot", "reload"}
\* where control is once loadAllData has returned: NewBuddyHandlers returns
\* the handlers and runServer goes on to start the monitor, or returns the
\* error and runServer gives up; the watch loop is back at its select
AfterLoadAllData(ok) ==
    IF wpc = "boot" THEN (IF ok THEN "new" ELSE "failed") ELSE "select"

\* mu.Lock() of a Load while a request holds the read lock: sync.RWMutex
\* marks a writer as pending, which makes every later RLock wait, and the Load
\* sleeps until the readers that were in have left
LoadLockWait ==
    /\ InLoadAllData
    /\ ld.pc = "call"
    /\ rd.pc = "held" /\ rd.d = LoadOrder[ld.i]
    /\ ld' = [ld EXCEPT !.pc = "lock"]
    /\ UNCHANGED <<disk, events, coll, idx, wlock, wpc, rd, nChanges, nFaults, nMut,
                   probe, watch, tf, hist, sm>>

\* RulesHandler.Load, KnowledgeHandler.Load, DatabaseHandler.Load,
\* TodoHandler.Load, HistoryHandler.Load, BackupHandler.Load up to the scan of
\* the directory: mu.Lock(), the collection reset, ReindexAll
LoadBegin ==
    /\ InLoadAllData
    /\ ld.pc \in {"call", "lock"}
    /\ LET d == LoadOrder[ld.i]
       IN  /\ ~wlock[d]
           /\ ~(rd.pc = "held" /\ rd.d = d)
           /\ coll' = [coll EXCEPT ![d] = IF ClearsFirst(d) THEN <<>> ELSE @]
           /\ events' = events \o Delivered("indexes", ReindexEvents(d))
           /\ hist' = [hist EXCEPT !.order = Append(@, d), !.preColl = coll[d],
                                   !.preDocs = DocsOf(d), !.dirty = @ \ {d}]
           /\ \/ /\ idx' = ReindexAll(idx, d)
                 /\ wlock' = [wlock EXCEPT ![d] = TRUE]
                 /\ ld' = [ld EXCEPT !.pc = "files", !.list = Listing(d)]
                 /\ UNCHANGED nFaults
              \/ /\ MayFail
                 /\ nFaults' = nFaults + 1
                 /\ idx' = ReindexAllFailed(idx, d)
                 /\ LoadReturn(d, "reindex")
    /\ UNCHANGED <<disk, wpc, rd, nChanges, nMut, probe, watch, tf, sm>>

\* mutant: the identifier of a record is drawn afresh in every reload (a
\* random or time-based identifier)
StrictFileFreshId(d, f) ==
    LET s == disk[d][f]
        r == [ParseFile(d, f, s.c)[1] EXCEPT !.id = <<d, f, hist.reloads>>]
    IN  IF s.st # "ok"
        THEN /\ LoadReturn(d, "parse")
             /\ UNCHANGED <<coll, idx, nFaults>>
        ELSE /\ coll' = [coll EXCEPT ![d] = Append(@, r)]
             /\ \/ /\ idx' = IndexDocument(idx, d, r)
                   /\ ld' = [ld EXCEPT !.list = Tail(@)]
                   /\ UNCHANGED <<wlock, nFaults>>
                \/ /\ MayFail
                   /\ nFaults' = nFaults + 1
                   /\ LoadReturn(d, "index")
                   /\ UNCHANGED idx

\* one iteration of the loop of RulesHandler.Load / HistoryHandler.Load over
\* the directory entries: a file that cannot be read or parsed ends the Load
\* with the error, and so does a failed IndexDocument
StrictFile(d, f) ==
    LET s == disk[d][f]
        r == ParseFile(d, f, s.c)[1]
    IN  IF s.st # "ok"
        THEN /\ LoadReturn(d, "parse")
             /\ UNCHANGED <<coll, idx, nFaults>>
        ELSE /\ coll' = [coll EXCEPT ![d] = Append(@, r)]
             /\ \/ /\ idx' = IndexDocument(idx, d, r)
                   /\ ld' = [ld EXCEPT !.list = Tail(@)]
                   /\ UNCHANGED <<wlock, nFaults>>
                \/ /\ MayFail
                   /\ nFaults' = nFaults + 1
                   /\ LoadReturn(d, "index")
                   /\ UNCHANGED idx

\* one call of the filepath.Walk callback of KnowledgeHandler.Load /
\* TodoHandler.Load. For a file deleted since the directory was read, Walk
\* either hands the callback the lstat error, which Load takes for "directory
\* missing" and returns nil, or ReadFile fails inside the callback
WalkFile(d, f) ==
    LET s == disk[d][f]
        r == ParseFile(d, f, s.c)[1]
    IN  CASE s.st = "absent" ->
               /\ \E err \in {"none", "parse"} : LoadReturn(d, err)
               /\ UNCHANGED <<coll, idx, nFaults>>
          [] s.st = "bad" ->
               /\ LoadReturn(d, "parse")
               /\ UNCHANGED <<coll, idx, nFaults>>
          [] s.st = "ok" ->
               /\ coll' = [coll EXCEPT ![d] = Append(@, r)]
               /\ \/ /\ idx' = IndexDocument(idx, d, r)
                     /\ ld' = [ld EXCEPT !.list = Tail(@)]
                     /\ UNCHANGED <<wlock, nFaults>>
                  \/ /\ MayFail
                     /\ nFaults' = nFaults + 1
                     /\ LoadReturn(d, "index")
                     /\ UNCHANGED idx

\* the documents left in the index when IndexDocument is called for every
\* record of recs and its failures are only logged: all of them, or (one
\* injected failure) all but one
LoggedIndexing(d, recs, failed) ==
    [idx EXCEPT ![d].docs =
        IndexPutAll(@, SelectSeq(recs, LAMBDA r : r.id \notin failed))]

\* DatabaseHandler.Load on schema.sql: a parseSchema error is dropped and the
\* tables stay empty; indexing errors are logged
SchemaFile(d, f) ==
    LET s == disk[d][f]
        tables == ParseFile(d, f, s.c)
    IN  /\ UNCHANGED <<coll, wlock>>
        /\ IF s.st # "ok"
           THEN /\ ld' = [ld EXCEPT !.list = Tail(@)]
                /\ UNCHANGED <<idx, nFaults>>
           ELSE /\ ld' = [ld EXCEPT !.list = Tail(@), !.aside = tables]
                /\ \/ /\ idx' = LoggedIndexing(d, tables, {})
                      /\ UNCHANGED nFaults
                   \/ /\ MayFail
                      /\ nFaults' = nFaults + 1
                      /\ \E r \in SeqIds(tables) : idx' = LoggedIndexing(d, tables, {r})

\* BackupHandler.Load on metadata.json: a read or unmarshal error ends the
\* Load with the error; indexing errors are logged
MetadataFile(d, f) ==
    LET s == disk[d][f]
    IN  IF s.st # "ok"
        THEN /\ LoadReturn(d, "parse")
             /\ UNCHANGED <<coll, idx, nFaults>>
        ELSE /\ coll' = [coll EXCEPT ![d] = s.c]
             /\ ld' = [ld EXCEPT !.list = Tail(@)]
             /\ UNCHANGED wlock
             /\ \/ /\ idx' = LoggedIndexing(d, s.c, {})
                   /\ UNCHANGED nFaults
                \/ /\ MayFail
                   /\ nFaults' = nFaults + 1
                   /\ \E r \in SeqIds(s.c) : idx' = LoggedIndexing(d, s.c, {r})

\* the body of a Load for the next directory entry
LoadFile ==
    /\ InLoadAllData
    /\ ld.pc = "files"
    /\ ld.list # <<>>
    /\ LET d == LoadOrder[ld.i]
           f == Head(ld.list)
       IN  IF ~IsCandidate(d, f)
           THEN /\ ld' = [ld EXCEPT !.list = Tail(@)]
                /\ UNCHANGED <<coll, idx, wlock, nFaults>>
           ELSE CASE d \in {"rules", "history"} -> StrictFile(d, f)
                  [] d \in {"knowledge", "todos"} -> WalkFile(d, f)
                  [] d = "database" -> SchemaFile(d, f)
                  [] d = "backups" -> MetadataFile(d, f)
    /\ UNCHANGED <<disk, events, wpc, rd, nChanges, nMut, probe, watch, tf, hist, sm>>

\* mutant: a directory that is not there ends the Load with the error of
\* ReadDir, Walk or Stat
LoadFinishMissingDirFails ==
    /\ InLoadAllData
    /\ ld.pc = "files"
    /\ ld.list = <<>>
    /\ LET d == LoadOrder[ld.i]
       IN  IF Listing(d) = <<>>
           THEN /\ LoadReturn(d, "nodir")
                /\ UNCHANGED coll
           ELSE /\ coll' = [coll EXCEPT ![d] =
                               CASE d = "history" -> SortNewestFirst(@)
                                 [] d = "database" -> ld.aside
                                 [] OTHER -> @]
                /\ LoadReturn(d, "none")
    /\ UNCHANGED <<disk, events, idx, wpc, rd, nChanges, nFaults, nMut, probe, watch, tf, hist,
                   sm>>

\* the end of a Load that met no error: HistoryHandler sorts its entries,
\* DatabaseHandler assigns dh.dbInfo, and the lock is released
LoadFinish ==
    /\ InLoadAllData
    /\ ld.pc = "files"
    /\ ld.list = <<>>
    /\ LET d == LoadOrder[ld.i]
       IN  /\ coll' = [coll EXCEPT ![d] =
                          CASE d = "history" -> SortNewestFirst(@)
                            [] d = "database" -> ld.aside
                            [] OTHER -> @]
           /\ LoadReturn(d, "none")
    /\ UNCHANGED <<disk, events, idx, wpc, rd, nChanges, nFaults, nMut, probe, watch, tf, hist,
                   sm>>

\* ------------------------------------------------ the reload coordinator
\* the snapshots of a reload are dropped when it returns
Forget(h) ==
    [h EXCEPT !.preColl = <<>>, !.preDocs = {}, !.dirty = {},
              !.snapColl = InitHist.snapColl, !.snapIdx = InitHist.snapIdx]

\* mutant: loadAllData logs a failed Load and goes on with the next domain
LoadAllDataNoAbort ==
    /\ InLoadAllData
    /\ ld.pc = "ret"
    /\ IF ld.i < Len(LoadOrder)
       THEN /\ ld' = [IdleLoad EXCEPT !.i = ld.i + 1, !.pc = "call"]
            /\ hist' = [hist EXCEPT !.result = IF ld.err # "none" THEN "error" ELSE @,
                                    !.failed = IF ld.err # "none" /\ @ = 0 THEN ld.i ELSE @]
            /\ UNCHANGED wpc
       ELSE /\ wpc' = "select"
            /\ ld' = IdleLoad
            /\ hist' = [Forget(hist) EXCEPT !.result =
                          IF ld.err # "none" \/ @ = "error" THEN "error" ELSE "ok",
                                    !.failed = IF ld.err # "none" /\ @ = 0 THEN ld.i ELSE @]
    /\ UNCHANGED <<disk, events, coll, idx, wlock, rd, nChanges, nFaults, nMut,
                   probe, watch, tf, sm>>

\* mutant: an error of ReloadData ends the watch loop
LoadAllDataFatal ==
    /\ InLoadAllData
    /\ ld.pc = "ret"
    /\ IF ld.err # "none"
       THEN /\ wpc' = "exited"
            /\ ld' = IdleLoad
            /\ hist' = [Forget(hist) EXCEPT !.result = "error", !.failed = ld.i]
       ELSE IF ld.i < Len(LoadOrder)
       THEN /\ ld' = [IdleLoad EXCEPT !.i = ld.i + 1, !.pc = "call"]
            /\ hist' = [hist EXCEPT !.preColl = <<>>, !.preDocs = {}]
            /\ UNCHANGED wpc
       ELSE /\ wpc' = "select"
            /\ ld' = IdleLoad
            /\ hist' = [Forget(hist) EXCEPT
                           !.result = "ok",
                           !.good = [d \in Domains |->
                                       [coll |-> coll[d], docs |-> DocsOf(d)]]]
    /\ UNCHANGED <<disk, events, coll, idx, wlock, rd, nChanges, nFaults, nMut,
                   probe, watch, tf, sm>>

\* BuddyHandlers.loadAllData / ReloadData between two Loads: the first error
\* is returned at once, otherwise the next Load is called, and after the last
\* one nil is returned; the watch loop logs the outcome and selects again
LoadAllData ==
    /\ InLoadAllData
    /\ ld.pc = "ret"
    /\ IF ld.err # "none"
       THEN /\ wpc' = AfterLoadAllData(FALSE)
            /\ ld' = IdleLoad
            /\ hist' = [Forget(hist) EXCEPT !.result = "error", !.failed = ld.i]
       ELSE IF ld.i < Len(LoadOrder)
       THEN /\ ld' = [IdleLoad EXCEPT !.i = ld.i + 1, !.pc = "call"]
            /\ hist' = [hist EXCEPT !.preColl = <<>>, !.preDocs = {}]
            /\ UNCHANGED wpc
       ELSE /\ wpc' = AfterLoadAllData(TRUE)
            /\ ld' = IdleLoad
            /\ hist' = [Forget(hist) EXCEPT
                           !.result = "ok",
                           !.good = [d \in Domains |->
                                       [coll |-> coll[d], docs |-> DocsOf(d)]]]
    /\ UNCHANGED <<disk, events, coll, idx, wlock, rd, nChanges, nFaults, nMut,
                   probe, watch, tf, sm>>


\* ------------------------------------------------------------- readers
\* the slice a read returns: GetRules, GetKnowledge, GetTodos, ListBackups("")
\* with q = 0, and GetRulesByCategory, GetRulesByPriority,
\* GetKnowledgeByCategory, GetIncompleteTodos, GetHistoryByFeature,
\* ListBackups(path) with the value q the filter compares with
View(s, q) == IF q = 0 THEN s ELSE SelectSeq(s, LAMBDA r : r.val = q)

\* a read operation up to its return statement: mu.RLock(), which waits while
\* a Load holds the lock, then the view of the collection
ReadBegin ==
    /\ rd.pc = "idle"
    /\ \E d \in Domains \ {"backups"} : \E q \in {0} \cup Contents :
          /\ ~wlock[d]
          /\ rd' = [IdleReader EXCEPT !.pc = "held", !.d = d, !.q = q,
                                       !.res = View(coll[d], q)]
    /\ UNCHANGED <<disk, events, coll, idx, wlock, wpc, ld, nChanges, nFaults, nMut,
                   probe, watch, tf, hist, sm>>

\* the deferred mu.RUnlock() of a read operation
ReadEnd ==
    /\ rd.pc = "held"
    /\ rd' = IdleReader
    /\ UNCHANGED <<disk, events, coll, idx, wlock, wpc, ld, nChanges, nFaults, nMut,
                   probe, watch, tf, hist, sm>>

\* domains whose tool handler is followed through a search request
ToolDomains == {"rules", "history", "backups"}

\* GetToolHandler of RulesHandler, HistoryHandler, BackupHandler with a search
\* query: SearchWithFilters gives the hits of the domain's index
ToolSearch ==
    /\ rd.pc = "idle"
    /\ \E d \in ToolDomains :
          rd' = [IdleReader EXCEPT !.pc = "hits", !.d = d, !.hits = DocIds(d)]
    /\ UNCHANGED <<disk, events, coll, idx, wlock, wpc, ld, nChanges, nFaults, nMut,
                   probe, watch, tf, hist, sm>>

\* the handler resolves the hits:  for _, rule := range rh.rules, without
\* rh.mu. Beside a Load that is rewriting the slice this is a data race: the
\* loop runs over the slice as it is or over the one the Load started from
ToolResolve ==
    /\ rd.pc = "hits"
    /\ \E src \in {coll[rd.d]} \cup (IF wlock[rd.d] THEN {hist.preColl} ELSE {}) :
          rd' = [rd EXCEPT !.pc = "resolved",
                           !.res = SelectSeq(src, LAMBDA r : r.id \in rd.hits),
                           !.inLoad = wlock[rd.d]]
    /\ UNCHANGED <<disk, events, coll, idx, wlock, wpc, ld, nChanges, nFaults, nMut,
                   probe, watch, tf, hist, sm>>

\* the handler formats the records and returns
ToolReturn ==
    /\ rd.pc = "resolved"
    /\ rd' = IdleReader
    /\ UNCHANGED <<disk, events, coll, idx, wlock, wpc, ld, nChanges, nFaults, nMut,
                   probe, watch, tf, hist, sm>>

\* ------------------------------------------------- DatabaseHandler.ValidateQuery
\* a Load of store d has called mu.Lock() and waits for the readers to leave
WriterPending(d) == ld.pc = "lock" /\ LoadOrder[ld.i] = d

\* the table names extractTableNames finds in a query: a table of the schema
\* and one the schema does not have
TableNames == {<<"database", SchemaSql>>, <<"database", <<"z">>>>}
Queries == {<<>>} \cup {<<a>> : a \in TableNames} \cup {<<a, b>> : a, b \in TableNames}

\* ValidateQuery up to the loop over the table names: dh.mu.RLock(), return
\* at once without a schema (or for a dangerous statement), else the names
ValidateQuery ==
    /\ rd.pc = "idle"
    /\ ~wlock["database"]
    /\ ~WriterPending("database")
    /\ \E names \in Queries :
          rd' = [IdleReader EXCEPT !.pc = "held", !.d = "database",
                     !.res = IF coll["database"] = <<>> THEN <<>> ELSE names]
    /\ UNCHANGED <<disk, events, coll, idx, wlock, wpc, ld, nChanges, nFaults, nMut,
                   probe, watch, tf, hist, sm>>

\* dh.GetTableByName(tableName) called from the loop: its own dh.mu.RLock(),
\* which waits while a writer is pending
GetTableByName ==
    /\ rd.pc = "held" /\ rd.d = "database"
    /\ rd.res # <<>>
    /\ ~rd.nested
    /\ ~WriterPending("database")
    /\ rd' = [rd EXCEPT !.nested = TRUE]
    /\ UNCHANGED <<disk, events, coll, idx, wlock, wpc, ld, nChanges, nFaults, nMut,
                   probe, watch, tf, hist, sm>>

\* GetTableByName returns with its RUnlock: the table, and the loop goes on,
\* or nil, and ValidateQuery is about to return "not found"
GetTableByNameReturn ==
    /\ rd.pc = "held" /\ rd.d = "database"
    /\ rd.nested
    /\ rd' = [rd EXCEPT !.nested = FALSE,
                        !.res = IF Head(@) \in SeqIds(coll["database"])
                                THEN Tail(@) ELSE <<>>]
    /\ UNCHANGED <<disk, events, coll, idx, wlock, wpc, ld, nChanges, nFaults, nMut,
                   probe, watch, tf, hist, sm>>

\* ValidateQuery returns; its deferred dh.mu.RUnlock() runs
ValidateReturn ==
    /\ rd.pc = "held" /\ rd.d = "database"
    /\ rd.res = <<>>
    /\ ~rd.nested
    /\ rd' = IdleReader
    /\ UNCHANGED <<disk, events, coll, idx, wlock, wpc, ld, nChanges, nFaults, nMut,
                   probe, watch, tf, hist, sm>>

\* ------------------------------------------------------ point mutations
\* the store's mu can be taken exclusively
LockFree(d) == ~wlock[d] /\ ~(rd.pc = "held" /\ rd.d = d)

\* values time.Now() takes relative to the timestamps found in files: not
\* newer than them (1) or newer than all of them (3)
Stamps == {1, 3}

\* identifiers a request names: the todo of the todo file, and one no todo has
TodoIds == {<<"todos", FileT>>, <<"todos", <<"z">>>>}

\* strings.Replace(line, "- [ ]", "- [x]", 1) or the reverse in updateTodoFile
RewriteTodo(c, completed) ==
    IF completed THEN (IF c = 1 THEN 2 ELSE c) ELSE (IF c = 2 THEN 1 ELSE c)

\* TodoHandler.UpdateTodoStatus with updateTodoFile: the first todo with the
\* identifier is changed in memory, then its file is rewritten, then the
\* index entry; an error of the file or of the index ends the call there
UpdateTodoStatus ==
    /\ MayMutate
    /\ LockFree("todos")
    /\ nMut' = nMut + 1
    /\ \E id \in TodoIds : \E completed \in BOOLEAN :
        LET hits == {i \in 1..Len(coll["todos"]) : coll["todos"][i].id = id}
            i == CHOOSE j \in hits : \A k \in hits : j <= k
            t == [coll["todos"][i] EXCEPT !.val = IF completed THEN 2 ELSE 1]
            f == id[2]
            s == disk["todos"][f]
        IN  IF hits = {}
            THEN UNCHANGED <<coll, disk, events, idx, nFaults>>
            ELSE /\ coll' = [coll EXCEPT !["todos"][i] = t]
                 /\ IF s.st # "ok"
                    THEN UNCHANGED <<disk, events, idx, nFaults>>
                    ELSE \/ /\ disk' = [disk EXCEPT !["todos"][f] = Ok(RewriteTodo(s.c, completed))]
                            /\ events' = events \o Delivered("todos", <<EventOf("todos", f, "Write")>>)
                            /\ idx' = IF idx["todos"].closed THEN idx
                                      ELSE IndexDocument(idx, "todos", t)
                            /\ UNCHANGED nFaults
                         \/ /\ MayFail
                            /\ nFaults' = nFaults + 1
                            /\ \/ UNCHANGED <<disk, events, idx>>
                               \/ /\ disk' = [disk EXCEPT !["todos"][f] =
                                                 Ok(RewriteTodo(s.c, completed))]
                                  /\ events' = events \o Delivered("todos", <<EventOf("todos", f, "Write")>>)
                                  /\ UNCHANGED idx
    /\ UNCHANGED <<wlock, wpc, ld, rd, nChanges, probe, watch, tf, hist, sm>>

\* mutant: AddEntry without hh.mu.Lock(), so that it indexes whatever a Load
\* of the history store is doing
AddEntryUnlocked ==
    /\ MayMutate
    /\ nMut' = nMut + 1
    /\ \E now \in Stamps :
        LET f == EntryFile(nMut + 1)
            entry == Rec(<<"history", f>>, now, now)
        IN  /\ disk' = [disk EXCEPT !["history"][f] = Ok(now)]
            /\ events' = events \o Delivered("history", <<EventOf("history", f, "Create")>>)
            /\ coll' = [coll EXCEPT !["history"] = <<entry>> \o @]
            /\ idx' = IF idx["history"].closed THEN idx
                      ELSE IndexDocument(idx, "history", entry)
            /\ UNCHANGED nFaults
    /\ UNCHANGED <<wlock, wpc, ld, rd, nChanges, probe, watch, tf, hist, sm>>

\* HistoryHandler.AddEntry: the entry is written to <id>.json, put in front of
\* the entries and indexed; a failed write ends the call before any change, a
\* failed IndexDocument after the two others
AddEntry ==
    /\ MayMutate
    /\ LockFree("history")
    /\ nMut' = nMut + 1
    /\ \E now \in Stamps :
        LET f == EntryFile(nMut + 1)
            entry == Rec(<<"history", f>>, now, now)
        IN  \/ /\ disk' = [disk EXCEPT !["history"][f] = Ok(now)]
               /\ events' = events \o Delivered("history", <<EventOf("history", f, "Create")>>)
               /\ coll' = [coll EXCEPT !["history"] = <<entry>> \o @]
               /\ idx' = IF idx["history"].closed THEN idx
                         ELSE IndexDocument(idx, "history", entry)
               /\ UNCHANGED nFaults
            \/ /\ MayFail
               /\ nFaults' = nFaults + 1
               /\ \/ UNCHANGED <<disk, events, coll, idx>>
                  \/ /\ disk' = [disk EXCEPT !["history"][f] = Ok(now)]
                     /\ events' = events \o Delivered("history", <<EventOf("history", f, "Create")>>)
                     /\ coll' = [coll EXCEPT !["history"] = <<entry>> \o @]
                     /\ UNCHANGED idx
    /\ UNCHANGED <<wlock, wpc, ld, rd, nChanges, probe, watch, tf, hist, sm>>

\* the notifications of CreateBackup: the new directory backups/<id>, then
\* metadata.json written by save
BackupEvents(name, saved) ==
    <<[name |-> BackupsDir \o Slash \o name, op |-> {"Create"}]>> \o
    (IF saved
     THEN <<EventOf("backups", MetadataJson,
                    IF disk["backups"][MetadataJson].st = "absent" THEN "Create" ELSE "Write")>>
     ELSE <<>>)

\* BackupHandler.CreateBackup with save: the file is copied, the record is
\* appended to the backups, metadata.json is written and the record is
\* indexed; a failed save ends the call with the record appended, a failed
\* IndexDocument is logged
CreateBackup ==
    /\ MayMutate
    /\ LockFree("backups")
    /\ nMut' = nMut + 1
    /\ \E now \in Stamps :
        LET name == <<"n", Digits[nMut + 1]>>
            backup == Rec(<<"backups", name>>, 1, now)
            all == Append(coll["backups"], backup)
        IN  /\ coll' = [coll EXCEPT !["backups"] = all]
            /\ \/ /\ disk' = [disk EXCEPT !["backups"][MetadataJson] = Ok(all)]
                  /\ events' = events \o Delivered("backups", BackupEvents(name, TRUE))
                  /\ idx' = IF idx["backups"].closed THEN idx
                            ELSE IndexDocument(idx, "backups", backup)
                  /\ UNCHANGED nFaults
               \/ /\ MayFail
                  /\ nFaults' = nFaults + 1
                  /\ \/ /\ events' = events \o Delivered("backups", BackupEvents(name, FALSE))
                        /\ UNCHANGED <<disk, idx>>
                     \/ /\ disk' = [disk EXCEPT !["backups"][MetadataJson] = Ok(all)]
                        /\ events' = events \o Delivered("backups", BackupEvents(name, TRUE))
                        /\ UNCHANGED idx
    /\ UNCHANGED <<wlock, wpc, ld, rd, nChanges, probe, watch, tf, hist, sm>>

\* the notifications of CleanOldBackups: one removed directory per backup
\* dropped, then metadata.json written by save
CleanEvents(dropped, saved) ==
    [i \in 1..Len(dropped) |->
        [name |-> BackupsDir \o Slash \o dropped[i].id[2], op |-> {"Remove"}]] \o
    (IF saved THEN <<EventOf("backups", MetadataJson, "Write")>> ELSE <<>>)

\* BackupHandler.CleanOldBackups: the backups older than the cutoff leave the
\* index (errors logged) and the collection, then metadata.json is written
CleanOldBackups ==
    /\ MayMutate
    /\ LockFree("backups")
    /\ nMut' = nMut + 1
    /\ \E cutoff \in {2, 4} :
        LET old(r) == r.ts < cutoff
            dropped == SelectSeq(coll["backups"], old)
            retained == SelectSeq(coll["backups"], LAMBDA r : ~old(r))
            pruned == [idx EXCEPT !["backups"].docs = {x \in @ : x.id \notin SeqIds(dropped)}]
        IN  /\ coll' = [coll EXCEPT !["backups"] = retained]
            /\ \/ /\ idx' = IF idx["backups"].closed THEN idx ELSE pruned
                  /\ disk' = [disk EXCEPT !["backups"][MetadataJson] = Ok(retained)]
                  /\ events' = events \o Delivered("backups", CleanEvents(dropped, TRUE))
                  /\ UNCHANGED nFaults
               \/ /\ MayFail
                  /\ nFaults' = nFaults + 1
                  /\ \/ /\ idx' = IF idx["backups"].closed THEN idx ELSE pruned
                        /\ events' = events \o Delivered("backups", CleanEvents(dropped, FALSE))
                        /\ UNCHANGED disk
                     \/ /\ dropped # <<>>
                        /\ disk' = [disk EXCEPT !["backups"][MetadataJson] = Ok(retained)]
                        /\ events' = events \o Delivered("backups", CleanEvents(dropped, TRUE))
                        /\ UNCHANGED idx
    /\ UNCHANGED <<wlock, wpc, ld, rd, nChanges, probe, watch, tf, hist, sm>>

\* ------------------------------------------- one todo file, line by line
\* strings.Contains
Contains(s, sub) ==
    \E i \in 0..(Len(s) - Len(sub)) : SubSeq(s, i + 1, i + Len(sub)) = sub

\* strings.Replace(s, old, new, 1)
ReplaceFirst(s, old, new) ==
    IF ~Contains(s, old) THEN s
    ELSE LET at == {i \in 0..(Len(s) - Len(old)) : SubSeq(s, i + 1, i + Len(old)) = old}
             i == CHOOSE j \in at : \A k \in at : j <= k
         IN  SubSeq(s, 1, i) \o new \o SubSeq(s, i + Len(old) + 1, Len(s))

\* strings.TrimPrefix
TrimPrefix(s, p) == IF HasPrefix(s, p) THEN SubSeq(s, Len(p) + 1, Len(s)) ELSE s

\* strings.TrimSpace
RECURSIVE TrimSpace(_)
TrimSpace(s) ==
    IF s = <<>> THEN s
    ELSE IF Head(s) = " " THEN TrimSpace(Tail(s))
    ELSE IF s[Len(s)] = " " THEN TrimSpace(SubSeq(s, 1, Len(s) - 1))
    ELSE s

OpenBox == <<"-", " ", "[", " ", "]">>
DoneBox == <<"-", " ", "[", "x", "]">>

\* task texts, one of them contained in the other, and the lines of a todo
\* file: an open and a completed checkbox for either task, and a heading
TaskTexts == {<<"a">>, <<"a", "b">>}
TodoLines ==
    {OpenBox \o <<" ">> \o t : t \in TaskTexts}
        \cup {DoneBox \o <<" ">> \o t : t \in TaskTexts}
        \cup {<<"#", " ", "a", "b">>}
TodoFiles == UNION {[1..n -> TodoLines] : n \in 1..MaxLines}

\* TodoHandler.loadTodoFile from line i on: a todo for every line that starts
\* with a checkbox and has a task; its identifier is the hash of path, task
\* and line index (the path is the same for all and left out)
RECURSIVE loadTodoLines(_, _)
loadTodoLines(lines, i) ==
    IF i > Len(lines) THEN <<>>
    ELSE LET line == lines[i]
             completed == HasPrefix(line, DoneBox)
             task == TrimSpace(TrimPrefix(TrimPrefix(line, OpenBox), DoneBox))
         IN  (IF (HasPrefix(line, OpenBox) \/ HasPrefix(line, DoneBox)) /\ task # <<>>
              THEN <<[id |-> <<task, i - 1>>, task |-> task, val |-> completed]>>
              ELSE <<>>)
             \o loadTodoLines(lines, i + 1)

loadTodoFile(lines) == loadTodoLines(lines, 1)

\* TodoHandler.updateTodoFile after ReadFile: the first line that contains
\* the task gets its first "- [ ]" replaced by "- [x]", or the reverse
updateTodoFile(lines, todo) ==
    LET hits == {i \in 1..Len(lines) : Contains(lines[i], todo.task)}
        i == CHOOSE j \in hits : \A k \in hits : j <= k
    IN  IF hits = {} THEN lines
        ELSE [lines EXCEPT ![i] =
                 IF todo.val THEN ReplaceFirst(@, OpenBox, DoneBox)
                 ELSE ReplaceFirst(@, DoneBox, OpenBox)]

\* search.FromTodo
FromTodo(todo) == [id |-> todo.id, val |-> todo.val]
TodoDocs(todos) == {FromTodo(todos[i]) : i \in 1..Len(todos)}

\* the handler after TodoHandler.Load of the file
TodoLoaded(lines) ==
    [ lines |-> lines,                      \* the file
      todos |-> loadTodoFile(lines),        \* th.todos
      docs |-> TodoDocs(loadTodoFile(lines)),   \* the todos index
      calls |-> 0,                          \* calls of UpdateTodoStatus
      ret |-> "none",                       \* what the last call returned
      arg |-> [id |-> <<>>, val |-> FALSE], \* its arguments
      pre |-> [lines |-> <<>>, todos |-> <<>>, docs |-> {}],  \* state at its entry
      written |-> FALSE,                    \* a Write event is pending
      reloaded |-> FALSE ]                  \* a Load ran after the last call

\* mutant: an unknown identifier falls back on the first todo
FindTodoOrFirst(todos, id) ==
    LET hits == {i \in 1..Len(todos) : todos[i].id = id}
    IN  IF hits = {} THEN (IF todos = <<>> THEN 0 ELSE 1)
        ELSE CHOOSE j \in hits : \A k \in hits : j <= k

\* the loop of UpdateTodoStatus over th.todos: the position of the first
\* todo with the identifier, 0 when there is none
FindTodo(todos, id) ==
    LET hits == {i \in 1..Len(todos) : todos[i].id = id}
    IN  IF hits = {} THEN 0 ELSE CHOOSE j \in hits : \A k \in hits : j <= k

\* identifiers a caller may pass: those of the todos, and one of no todo
CallIds == SeqIds(tf.todos) \cup {<<<<"z">>, 0>>}

\* what can go wrong in one call: ReadFile, WriteFile before or after the
\* file was truncated, UpdateDocument
TodoFaults == {"none", "read", "open", "write", "index"}

\* TodoHandler.UpdateTodoStatus with updateTodoFile on the file inspected
\* line by line
UpdateTodoStatusLines ==
    /\ tf # NoTodoFile
    /\ tf.calls < MaxCalls
    /\ \E id \in CallIds : \E completed \in BOOLEAN : \E fault \in TodoFaults :
        LET i == FindTodo(tf.todos, id)
            called == [tf EXCEPT !.calls = @ + 1,
                                 !.arg = [id |-> id, val |-> completed],
                                 !.pre = [lines |-> tf.lines, todos |-> tf.todos,
                                          docs |-> tf.docs],
                                 !.reloaded = FALSE]
            todo == [tf.todos[i] EXCEPT !.val = completed]
            inMemory == [called EXCEPT !.todos[i] = todo]
            inFile == [inMemory EXCEPT !.lines = updateTodoFile(tf.lines, todo),
                                       !.written = TRUE]
        IN  IF i = 0
            THEN /\ fault = "none"
                 /\ tf' = [called EXCEPT !.ret = "notfound"]
            ELSE CASE fault = "read" -> tf' = [inMemory EXCEPT !.ret = "ioerr"]
                   [] fault = "open" -> tf' = [inMemory EXCEPT !.ret = "ioerr"]
                   [] fault = "write" ->
                        tf' = [inMemory EXCEPT !.ret = "ioerr", !.lines = <<>>,
                                               !.written = TRUE]
                   [] fault = "index" -> tf' = [inFile EXCEPT !.ret = "indexerr"]
                   [] fault = "none" ->
                        tf' = [inFile EXCEPT !.ret = "ok",
                                             !.docs = IndexPut(@, FromTodo(todo))]
    /\ UNCHANGED <<disk, events, coll, idx, wlock, wpc, ld, rd, nChanges, nFaults,
                   nMut, probe, watch, hist, sm>>

\* the reload that the Write event of the call starts, as far as this file
\* goes: TodoHandler.Load reads the file again
TodoReload ==
    /\ tf # NoTodoFile
    /\ tf.written
    /\ tf' = [tf EXCEPT !.todos = loadTodoFile(tf.lines),
                        !.docs = TodoDocs(loadTodoFile(tf.lines)),
                        !.written = FALSE,
                        !.reloaded = TRUE]
    /\ UNCHANGED <<disk, events, coll, idx, wlock, wpc, ld, rd, nChanges, nFaults,
                   nMut, probe, watch, hist, sm>>

\* -------------------------------------- SearchManager, call by call
\* the goroutines that call the SearchManager at the same time
Callers == {1, 2}
\* index types a caller may name: the six of NewSearchManager and another
IndexNames == Domains \cup {"nosuch"}
FacadeOps == {"index", "update", "delete", "search", "searchWithFilters",
              "reindexAll", "documentCount"}
\* the identifier the followed calls index and delete
DocKey == <<"k">>

IdleCall == [pc |-> "idle", op |-> "none", name |-> "none", existed |-> FALSE,
             gen |-> 0, ret |-> "none"]

\* NewSearchManager: an index for each of the six types; every entry of
\* sm.indexes is [gen, docs, closed], gen counting the handles of the type
FacadeOpen ==
    [ indexes |-> [d \in Domains |-> [gen |-> 1, docs |-> {}, closed |-> FALSE]],
      mu |-> 0,                 \* sm.mu: 0, or the caller holding it exclusively
      call |-> [c \in Callers |-> IdleCall],
      calls |-> 0 ]

Indexed == DOMAIN sm.indexes

FacadeUnchanged ==
    UNCHANGED <<disk, events, coll, idx, wlock, wpc, ld, rd, nChanges, nFaults,
                nMut, probe, watch, tf, hist>>

\* a goroutine enters an operation of the SearchManager
FacadeCall(c) ==
    /\ sm # NoFacade
    /\ sm.call[c].pc = "idle"
    /\ sm.calls < MaxFacadeCalls
    /\ \E op \in FacadeOps : \E name \in IndexNames :
        sm' = [sm EXCEPT !.calls = @ + 1,
                         !.call[c] = [IdleCall EXCEPT !.pc = "want", !.op = op,
                                                      !.name = name,
                                                      !.existed = name \in Indexed]]
    /\ FacadeUnchanged

\* IndexDocument, UpdateDocument, DeleteDocument, Search, SearchWithFilters,
\* GetDocumentCount:  sm.mu.RLock(); index, exists := sm.indexes[t];
\* sm.mu.RUnlock(); the not-found error when there is none
FacadeLookup(c) ==
    /\ sm # NoFacade
    /\ sm.call[c].pc = "want"
    /\ sm.call[c].op # "reindexAll"
    /\ sm.mu = 0
    /\ LET name == sm.call[c].name
       IN  sm' = IF name \in Indexed
                 THEN [sm EXCEPT !.call[c].pc = "got",
                                 !.call[c].gen = sm.indexes[name].gen]
                 ELSE [sm EXCEPT !.call[c].pc = "returned",
                                 !.call[c].ret = "notfound"]
    /\ FacadeUnchanged

\* index.Index, index.Delete, index.Search, index.DocCount on the handle the
\* lookup gave, outside the mutex; a handle closed since then gives an error
FacadeOperate(c) ==
    /\ sm # NoFacade
    /\ sm.call[c].pc = "got"
    /\ LET name == sm.call[c].name
           op == sm.call[c].op
           live == sm.indexes[name].gen = sm.call[c].gen /\ ~sm.indexes[name].closed
       IN  sm' = IF ~live
                 THEN [sm EXCEPT !.call[c].pc = "returned", !.call[c].ret = "closed"]
                 ELSE [sm EXCEPT !.call[c].pc = "returned", !.call[c].ret = "ok",
                                 !.indexes[name].docs =
                                     CASE op \in {"index", "update"} -> @ \cup {DocKey}
                                       [] op = "delete" -> @ \ {DocKey}
                                       [] OTHER -> @]
    /\ FacadeUnchanged

\* SearchManager.ReindexAll:  sm.mu.Lock()
FacadeLock(c) ==
    /\ sm # NoFacade
    /\ sm.call[c].pc = "want"
    /\ sm.call[c].op = "reindexAll"
    /\ sm.mu = 0
    /\ sm' = [sm EXCEPT !.mu = c, !.call[c].pc = "locked"]
    /\ FacadeUnchanged

\* SearchManager.ReindexAll under the mutex: the index of the type, if there
\* is one, is closed, its directory removed and initializeIndex stores a new
\* index under the type; when RemoveAll or initializeIndex fails the closed
\* handle stays in the map
FacadeReindex(c) ==
    /\ sm # NoFacade
    /\ sm.call[c].pc = "locked"
    /\ LET name == sm.call[c].name
           gen == IF name \in Indexed THEN sm.indexes[name].gen ELSE 0
           put(e) == [n \in Indexed \cup {name} |-> IF n = name THEN e ELSE sm.indexes[n]]
       IN  \/ sm' = [sm EXCEPT !.mu = 0, !.call[c].pc = "returned", !.call[c].ret = "ok",
                               !.indexes = put([gen |-> gen + 1, docs |-> {},
                                                closed |-> FALSE])]
           \/ sm' = [sm EXCEPT !.mu = 0, !.call[c].pc = "returned",
                               !.call[c].ret = "ioerr",
                               !.indexes = IF name \in Indexed
                                           THEN put([sm.indexes[name] EXCEPT !.closed = TRUE])
                                           ELSE @]
    /\ FacadeUnchanged

\* the caller goes on after the operation returned, to call again
FacadeReturn(c) ==
    /\ sm # NoFacade
    /\ sm.call[c].pc = "returned"
    /\ sm.calls < MaxFacadeCalls
    /\ sm' = [sm EXCEPT !.call[c].pc = "idle"]
    /\ FacadeUnchanged

\* ----------------------------------------------------- specifications
\* the watcher, the coordinator and the stores under external file changes
NextReload ==
    \/ FsCreate(Domains) \/ FsWrite(Domains) \/ FsCorrupt(Domains)
    \/ FsChmod(Domains) \/ FsRemove(Domains)
    \/ WatchLoopEvent
    \/ LoadBegin \/ LoadFile \/ LoadFinish \/ LoadAllData

SpecReload == Init /\ [][NextReload]_vars

\* request-side reads while the rules files change and everything reloads
NextRead ==
    \/ FsCreate({"rules"}) \/ FsWrite({"rules"}) \/ FsChmod({"rules"}) \/ FsRemove({"rules"})
    \/ WatchLoopEvent
    \/ LoadBegin \/ LoadFile \/ LoadFinish \/ LoadAllData
    \/ ReadBegin \/ ReadEnd

SpecRead == Init /\ [][NextRead]_vars

\* point mutations, the reloads their own file writes start, and an external
\* writer of metadata.json
NextStore ==
    \/ UpdateTodoStatus \/ AddEntry \/ CreateBackup \/ CleanOldBackups
    \/ FsCreate({"backups"})
    \/ WatchLoopEvent
    \/ LoadBegin \/ LoadFile \/ LoadFinish \/ LoadAllData

SpecStore == Init /\ [][NextStore]_vars

\* the reload pipeline with the scheduling the runtime gives it: the watch
\* loop's goroutine is never starved, so every step of the loop and of the
\* reload it runs is eventually taken
Pipeline == WatchLoopEvent \/ LoadBegin \/ LoadFile \/ LoadFinish \/ LoadAllData

SpecLive == Init /\ [][NextReload]_vars /\ WF_vars(Pipeline)

\* the watcher's whole life: file writes, load failures, error values,
\* cancellation and the closing of either channel
LoopExit == WatchLoopDone \/ WatchLoopEventsClosed \/ WatchLoopErrorsClosed

NextWatch ==
    \/ FsWrite({"history"}) \/ FsCorrupt({"history"})
    \/ Cancel \/ CloseEvents \/ CloseErrors \/ WatcherError
    \/ WatchLoopError \/ LoopExit
    \/ Pipeline

SpecWatch == Init /\ [][NextWatch]_vars

\* with the scheduling of SpecLive, and a select that does not pass over a
\* ready case for ever
SpecWatchLive ==
    /\ Init /\ [][NextWatch]_vars
    /\ WF_vars(Pipeline) /\ WF_vars(WatchLoopError) /\ WF_vars(LoopExit)

\* files are deleted while a Write event of a rule file waits in the queue
InitGone ==
    /\ InitStores
    /\ sm = NoFacade
    /\ probe = EventOf("rules", FileB, "Write")
    /\ events = <<probe>>
    /\ tf = NoTodoFile

NextGone == FsRemove(Domains) \/ Pipeline

SpecGone == InitGone /\ [][NextGone]_vars

\* AddEntry calls while the history file is rewritten from outside
NextOrder == FsWrite({"history"}) \/ AddEntry \/ Pipeline

SpecOrder == Init /\ [][NextOrder]_vars

\* goroutines calling the SearchManager at the same time
InitFacade ==
    /\ InitStores
    /\ sm = FacadeOpen
    /\ events = <<>>
    /\ probe = NoEvent
    /\ tf = NoTodoFile

NextFacade ==
    \E c \in Callers :
        \/ FacadeCall(c) \/ FacadeLookup(c) \/ FacadeOperate(c)
        \/ FacadeLock(c) \/ FacadeReindex(c) \/ FacadeReturn(c)

SpecFacade == InitFacade /\ [][NextFacade]_vars

\* the file monitor from NewFileMonitor on: Start, then file writes and reloads
InitStart ==
    /\ InitData
    /\ wpc = "new"
    /\ watch = [WatchOpen EXCEPT !.dirs = {}, !.started = "no"]
    /\ sm = NoFacade
    /\ events = <<>>
    /\ probe = NoEvent
    /\ tf = NoTodoFile

NextStart == Start \/ FsWrite({"history"}) \/ Pipeline

\* with the scheduling of SpecLive
SpecStartLive == InitStart /\ [][NextStart]_vars /\ WF_vars(Pipeline)

\* search requests to the tool handlers while rule files are written
NextTool == FsWrite({"rules"}) \/ Pipeline \/ ToolSearch \/ ToolResolve \/ ToolReturn

SpecTool == Init /\ [][NextTool]_vars

\* query validations beside the reloads that writes to schema.sql start
NextValidate ==
    \/ FsWrite({"database"})
    \/ Pipeline \/ LoadLockWait
    \/ ValidateQuery \/ GetTableByName \/ GetTableByNameReturn \/ ValidateReturn

SpecValidate == Init /\ [][NextValidate]_vars

\* runServer from its first statement: NewBuddyHandlers has built the six
\* stores, empty, and the SearchManager, and is in loadAllData; the monitor
\* has not been made, no directory is watched yet
InitBoot ==
    /\ disk = InitDisk
    /\ coll = [d \in Domains |-> <<>>]
    /\ idx = [d \in Domains |-> [closed |-> FALSE, docs |-> {}]]
    /\ wlock = [d \in Domains |-> FALSE]
    /\ ld = [IdleLoad EXCEPT !.i = 1, !.pc = "call"]
    /\ rd = IdleReader
    /\ nChanges = 0 /\ nFaults = 0 /\ nMut = 0
    /\ hist = InitHist
    /\ wpc = "boot"
    /\ watch = [WatchOpen EXCEPT !.dirs = {}, !.started = "no"]
    /\ sm = NoFacade
    /\ events = <<>>
    /\ probe = NoEvent
    /\ tf = NoTodoFile

\* the startup load, Start, and the reloads that writes to history files start
NextBoot == Start \/ FsWrite({"history"}) \/ Pipeline

SpecBoot == InitBoot /\ [][NextBoot]_vars

\* reloads with the files left as they are
NextTwice == FsTouch(Domains) \/ Pipeline

SpecTwice == Init /\ [][NextTwice]_vars

\* reloads of a backups directory whose metadata file is written from outside
NextCount == FsWriteMetadata \/ Pipeline

SpecCount == Init /\ [][NextCount]_vars

\* UpdateTodoStatus on a todo file of any content
InitTodo ==
    /\ InitStores
    /\ sm = NoFacade
    /\ events = <<>>
    /\ probe = NoEvent
    /\ tf \in {TodoLoaded(lines) : lines \in TodoFiles}

NextTodo == UpdateTodoStatusLines \/ TodoReload

SpecTodo == InitTodo /\ [][NextTodo]_vars

\* ---------------------------------------------------- the event filter
\* names of the events the filter is tried on: every accepted extension, a
\* hidden file, a hidden directory on the way, the editor suffixes, a
\* suffix after or before an accepted extension, no extension, a directory
ProbeNames ==
    { RulesDir \o Slash \o FileA,
      HistoryDir \o Slash \o FileH,
      DatabaseDir \o Slash \o SchemaSql,
      RulesDir \o Slash \o Dot \o FileA,
      Dot \o <<"b">> \o Slash \o RulesDir \o Slash \o FileA,
      RulesDir \o Slash \o Dot \o <<"g">> \o Slash \o FileA,
      RulesDir \o Slash \o FileA \o Tilde,
      RulesDir \o Slash \o FileA \o DotSwp,
      RulesDir \o Slash \o FileA \o DotTmp,
      RulesDir \o Slash \o <<"a">> \o DotTmp \o DotMd,
      RulesDir \o Slash \o <<"a">> \o DotTxt,
      RulesDir \o Slash \o DotMd,
      FileA,
      DotSql,
      BackupsDir \o Slash \o <<"n", "1">>,
      RulesDir \o Slash }

ProbeEvents == [name : ProbeNames, op : OpMasks]

\* the watcher has queued one event, of any name and any operation mask
InitFilter ==
    /\ InitStores
    /\ sm = NoFacade
    /\ probe \in ProbeEvents
    /\ events = <<probe>>
    /\ tf = NoTodoFile

NextFilter == Pipeline

SpecFilter == InitFilter /\ [][NextFilter]_vars


\* ================================================================ claims
\* the order of the domains as the specification lists it
FixedOrder == <<"rules", "knowledge", "database", "todos", "history", "backups">>

\* the Load of the reload has returned with an error and loadAllData has not
\* yet looked at it
LoadFailed == wpc = "reload" /\ ld.pc = "ret" /\ ld.err # "none"

\* the watch loop is at its select and no notification is pending
Quiescent == wpc = "select" /\ events = <<>>
\* every file on disk can be read and parsed
AllReadable == \A d \in Domains : \A f \in DirFiles(d) : disk[d][f].st # "bad"
\* store and index of d hold what a Load of the present disk builds
FreshIn(d) ==
    /\ coll[d] = Expected(d, disk)
    /\ DocsOf(d) = SeqDocs(Expected(d, disk))
Fresh == \A d \in Domains : FreshIn(d)

\* C1: for every domain with no load in progress, the identifiers of the
\* store's collection are the identifiers of the documents of its index,
\* after any loads and mutations, failed or not.  (The claim as stated.)
C1_StoreIndexSameIds ==
    \A d \in Domains : ~wlock[d] => CollIds(d) = DocIds(d)

\* C2: when a Load returns because a candidate file could not be parsed, the
\* collection is exactly the one it held when the Load was called.  (The
\* claim as stated.)
C2_ParseFailureKeepsCollection ==
    (wpc = "reload" /\ ld.pc = "ret" /\ ld.err = "parse")
        => coll[LoadOrder[ld.i]] = hist.preColl

\* C3: a read of a domain whose Load of the running reload has returned gets
\* the view of the complete collection from before that Load or of the
\* complete collection a Load of the files builds, never of an empty or
\* partly rebuilt one.  (The claim as stated.)
C3_ReadSeesCompleteCollection ==
    (/\ rd.pc = "held"
     /\ wpc = "reload" /\ ld.pc = "ret"
     /\ rd.d = LoadOrder[ld.i]
     /\ rd.d \notin hist.dirty)
        => rd.res \in {View(hist.preColl, rd.q), View(Expected(rd.d, disk), rd.q)}

C3_ReadAfterFailedLoad ==
    /\ rd.pc = "held"
    /\ LoadFailed
    /\ rd.d = LoadOrder[ld.i]
    /\ rd.d \notin hist.dirty
    /\ rd.res = View(coll[rd.d], rd.q)

\* C4: when a Load of a reload has failed, a search of the index of its
\* domain still returns every document the index held when the reload
\* started.  (The claim as stated.)
C4_FailedLoadKeepsIndex ==
    LoadFailed => hist.snapIdx[LoadOrder[ld.i]] \subseteq DocsOf(LoadOrder[ld.i])

C6_FailedReloadFrame ==
    /\ LoadFailed =>
          /\ \A j \in (ld.i + 1)..Len(LoadOrder) :
                /\ coll[LoadOrder[j]] = hist.snapColl[LoadOrder[j]]
                /\ DocsOf(LoadOrder[j]) = hist.snapIdx[LoadOrder[j]]
          /\ \A j \in 1..(ld.i - 1) :
                LoadOrder[j] \notin hist.dirty =>
                    /\ coll[LoadOrder[j]] = Expected(LoadOrder[j], disk)
                    /\ DocsOf(LoadOrder[j]) \subseteq SeqDocs(Expected(LoadOrder[j], disk))
                    /\ nFaults = 0 => FreshIn(LoadOrder[j])
    /\ hist.result = "error" =>
          /\ hist.failed \in 1..Len(LoadOrder)
          /\ hist.order = SubSeq(LoadOrder, 1, hist.failed)

C6_ReloadAbortedMidway ==
    /\ LoadFailed
    /\ ld.i \in 2..(Len(LoadOrder) - 1)
    /\ hist.dirty = {}
    /\ hist.snapColl["rules"] # coll["rules"]

\* C7: the Loads a reload has invoked are a prefix of rules, knowledge,
\* database, todos, history, backups, all six when it returned nil, and the
\* only Load that can be running is the one invoked last.
C7_FixedOrderOneAtATime ==
    /\ Len(hist.order) <= Len(FixedOrder)
    /\ hist.order = SubSeq(FixedOrder, 1, Len(hist.order))
    /\ hist.result = "ok" => hist.order = FixedOrder
    /\ \A d \in Domains :
          wlock[d] => /\ hist.order # <<>>
                      /\ d = hist.order[Len(hist.order)]
                      /\ ld.pc = "files"
    /\ ld.pc = "call" => Len(hist.order) = ld.i - 1

C7_LaterLoadRunning ==
    /\ wlock["history"]
    /\ hist.order = SubSeq(FixedOrder, 1, 5)

\* C8: the number of invocations of ReloadData is the number of relevant
\* events the watch loop has received.
C8_OneReloadPerRelevantEvent ==
    hist.reloads = hist.relevant

C8_TwoEventsTwoReloads ==
    /\ hist.reloads = 2
    /\ Quiescent

\* C9 as stated: an event whose operation reports a rename, a deletion or a
\* permission change never starts a reload.
C9_RenameRemoveChmodNeverReloads ==
    hist.reloads > 0 => probe.op \cap {"Rename", "Remove", "Chmod"} = {}

\* C9: an event whose operation reports neither a creation nor a write, as
\* every pure rename, deletion and permission change does, never starts a
\* reload, whatever its file name.
C9_NoCreateNoWriteNeverReloads ==
    probe.op \cap {"Create", "Write"} = {} => hist.reloads = 0

C9_PureRemoveIgnored ==
    /\ probe = [name |-> RulesDir \o Slash \o FileA, op |-> {"Remove"}]
    /\ events = <<>>
    /\ hist.reloads = 0

Stopping == watch.done \/ watch.evClosed \/ watch.errClosed

\* C11: once the context is cancelled or the Events channel is closed, no
\* invocation of ReloadData begins: the number of reloads begun stays what it
\* was at that moment.  (The claim as stated.)
C11_NoReloadAfterStop ==
    (watch.done \/ watch.evClosed) => hist.reloads = watch.stopAt

C11_ReloadBegunAfterCancel ==
    /\ watch.done
    /\ ~watch.evClosed
    /\ wpc = "reload"
    /\ hist.reloads = watch.stopAt + 1

\* C12 as stated: the loop has returned only from the cancellation case or
\* from the closed Events channel.
C12_OnlyCancelOrEventsEndLoop ==
    wpc = "exited" => watch.exitBy \in {"ctx", "events"}

\* C12: the loop has returned only from the cancellation case with the
\* context cancelled, from the Events case with that channel closed, or from
\* the Errors case with that channel closed and drained; an error value
\* alone never ends it.
C12_ErrorValueNeverEndsLoop ==
    wpc = "exited" =>
        \/ watch.exitBy = "ctx" /\ watch.done
        \/ watch.exitBy = "events" /\ watch.evClosed
        \/ watch.exitBy = "errors" /\ watch.errClosed /\ watch.errs = 0

C12_ReloadAfterLoggedError ==
    /\ watch.logged = 1
    /\ ~Stopping
    /\ wpc = "reload"

\* C13: the step that handles an error of ReloadData leaves the loop
\* running; after a failed reload the next relevant event still starts a
\* reload (unless the loop is stopped first), and a cancellation still ends
\* the loop.
C13_LoopSurvivesReloadError ==
    /\ [][LoadFailed => wpc' # "exited"]_vars
    /\ (/\ hist.result = "error" /\ wpc = "select" /\ ~watch.evClosed
        /\ events # <<>> /\ RelevantBySpec(Head(events)))
          ~> (hist.result = "running" \/ wpc = "exited")
    /\ (hist.result = "error" /\ watch.done) ~> (wpc = "exited")

C13_ReloadBegunAfterFailedReload ==
    /\ hist.reloads = 2
    /\ wpc = "reload" /\ ld.i = 1
    /\ coll["history"] = <<>>
    /\ ~Stopping

\* C14: the loop never returns in the middle of a reload, and a cancellation
\* signalled while a reload is running lets no further reload begin.  (The
\* claim as stated.)
C14_ReloadCompletesCancelStopsNew ==
    /\ wpc = "exited" => (ld = IdleLoad /\ hist.result # "running")
    /\ (watch.done /\ watch.midReload) => hist.reloads = watch.stopAt

C14_SecondReloadAfterCancel ==
    /\ watch.done /\ watch.midReload
    /\ wpc = "reload"
    /\ hist.reloads = watch.stopAt + 1

\* C15: when two reloads have been triggered and the pipeline is quiescent
\* again, every domain has the collection and the documents that the last
\* reload that returned nil left, and no identifier twice in its collection.
\* (The claim as stated.)
C15_EndsInLastGoodReload ==
    (Quiescent /\ hist.reloads >= 2) =>
        \A d \in Domains :
            /\ coll[d] = hist.good[d].coll
            /\ DocsOf(d) = hist.good[d].docs
            /\ Cardinality(CollIds(d)) = Len(coll[d])

C15_SecondReloadFailed ==
    /\ Quiescent
    /\ hist.reloads = 2
    /\ hist.result = "error"
    /\ \E d \in Domains : coll[d] # hist.good[d].coll


\* SearchManager.GetDocumentCount
GetDocumentCount(d) == Cardinality(DocsOf(d))

\* the file of the todo handler read again
Reparsed == loadTodoFile(tf.lines)

\* the todos at the entry of the last call with the targeted one set
Targeted ==
    LET i == FindTodo(tf.pre.todos, tf.arg.id)
    IN  [tf.pre.todos EXCEPT ![i].val = tf.arg.val]

\* the file holds the targeted todo with the value of the last call
Persisted ==
    \E j \in 1..Len(Reparsed) :
        Reparsed[j].id = tf.arg.id /\ Reparsed[j].val = tf.arg.val

\* C16: after UpdateTodoStatus returned success, parsing the file of the todo
\* again gives the identifiers and completion values that memory holds, and
\* these are the ones before the call with the targeted record changed and no
\* other.
C16_FileMatchesMemoryOneRecordChanged ==
    (tf.ret = "ok" /\ ~tf.reloaded) =>
        /\ Reparsed = tf.todos
        /\ Reparsed = Targeted

\* C16 case: the call returned success and the file has another record
\* rewritten than the targeted one.
C16_OtherRecordRewritten ==
    /\ tf.ret = "ok"
    /\ ~tf.reloaded
    /\ \E j \in 1..Len(Reparsed) :
        /\ Reparsed[j].id # tf.arg.id
        /\ Reparsed[j].val # tf.pre.todos[j].val

\* C17: after UpdateTodoStatus succeeded on a present identifier, memory and
\* the todos index hold the completion value of the call, whenever the
\* identifier is read afterwards.
C17_SuccessfulUpdateIsRead ==
    tf.ret = "ok" =>
        LET i == FindTodo(tf.todos, tf.arg.id)
        IN  /\ i # 0
            /\ tf.todos[i].val = tf.arg.val
            /\ [id |-> tf.arg.id, val |-> tf.arg.val] \in tf.docs

\* C17 case: the call changed the value and returned success, and the reload
\* its write started put the old value back.
C17_ReloadRevertedUpdate ==
    /\ tf.ret = "ok"
    /\ tf.reloaded
    /\ tf.todos = tf.pre.todos
    /\ Targeted # tf.pre.todos

\* C18: whenever UpdateTodoStatus changed the record in memory and the change
\* is not in the file, the call returned an error.
C18_UnpersistedChangeReturnsError ==
    (tf.ret # "none" /\ ~tf.reloaded /\ tf.todos # tf.pre.todos /\ ~Persisted)
        => tf.ret \in {"ioerr", "indexerr"}

\* C18 case: memory changed, the file is as it was, the call returned success.
C18_SuccessWithFileUntouched ==
    /\ tf.ret = "ok"
    /\ ~tf.reloaded
    /\ tf.todos # tf.pre.todos
    /\ tf.lines = tf.pre.lines

\* C19: UpdateTodoStatus on an identifier of no todo returns the not-found
\* error and leaves the collection, the file and the index as they were.
C19_AbsentIdNotFoundNoChange ==
    (tf.ret # "none" /\ ~tf.reloaded /\ tf.arg.id \notin SeqIds(tf.pre.todos)) =>
        /\ tf.ret = "notfound"
        /\ tf.todos = tf.pre.todos
        /\ tf.lines = tf.pre.lines
        /\ tf.docs = tf.pre.docs

\* C19 case: a call with an unknown identifier returned while the handler
\* holds todos.
C19_AbsentIdCalled ==
    /\ tf.ret = "notfound"
    /\ tf.pre.todos # <<>>
    /\ tf.arg.id \notin SeqIds(tf.pre.todos)


\* a Load just returned nil and no index operation has failed
LoadedAndIndexed == wpc = "reload" /\ ld.pc = "ret" /\ ld.err = "none" /\ nFaults = 0

\* C20: for every domain, after a Load that rebuilt the index and indexed the
\* N records it parsed, the document count of the domain's index is N.
C20_CountEqualsParsed ==
    LoadedAndIndexed =>
        GetDocumentCount(LoadOrder[ld.i]) = Len(coll[LoadOrder[ld.i]])

\* C20 case: the backups Load parsed two records, indexed both without an
\* error, and the index holds one document.
C20_TwoParsedOneDocument ==
    /\ LoadedAndIndexed
    /\ LoadOrder[ld.i] = "backups"
    /\ Len(coll["backups"]) = 2
    /\ GetDocumentCount("backups") = 1


LoadReturned(d) ==
    wpc = "reload" /\ ld.pc = "ret" /\ LoadOrder[ld.i] = d /\ d \notin hist.dirty

\* no record read from file f of d is in the collection or the index of d
RecordGone(d, f) ==
    IF d = "backups"
    THEN f = MetadataJson => (coll[d] = <<>> /\ DocsOf(d) = {})
    ELSE <<d, f>> \notin CollIds(d) /\ <<d, f>> \notin DocIds(d)

NewestFirst(s) == \A i, j \in 1..Len(s) : i < j => s[i].ts >= s[j].ts

\* C23: whenever no operation holds the lock of the history store, the
\* history collection is ordered newest-first by timestamp.
C23_HistoryNewestFirst ==
    LockFree("history") => NewestFirst(coll["history"])

\* C23 case: AddEntry has put its entry in front of an entry whose file gives
\* it a later timestamp.
C23_OlderEntryInFront ==
    /\ LockFree("history")
    /\ wpc = "select"
    /\ nMut = 1
    /\ Len(coll["history"]) = 2
    /\ coll["history"][1].id = <<"history", EntryFile(1)>>
    /\ coll["history"][1].ts < coll["history"][2].ts

\* C24: whenever no operation holds the lock of the backups store, the
\* backups collection is ordered newest-first by timestamp.
C24_BackupsNewestFirst ==
    LockFree("backups") => NewestFirst(coll["backups"])

\* C24 case: CreateBackup has appended its record behind an older one.
C24_NewBackupLast ==
    /\ LockFree("backups")
    /\ nMut = 1
    /\ Len(coll["backups"]) = 2
    /\ coll["backups"][1].ts < coll["backups"][2].ts
    /\ coll["backups"][2].id = <<"backups", <<"n", Digits[1]>>>>


\* the Load of d that has returned met a failure of IndexDocument: it returned
\* that error, or it went on and a record it kept has no document
IndexFailed(d) ==
    \/ ld.err = "index"
    \/ ld.err = "none" /\ ~(CollIds(d) \subseteq DocIds(d))

\* C25: in every domain, a Load in which IndexDocument failed for a record
\* that was parsed returns nil, and the collection holds every parsed record.
C25_IndexFailureDoesNotFailLoad ==
    \A d \in Domains :
        (LoadReturned(d) /\ IndexFailed(d)) =>
            /\ ld.err = "none"
            /\ coll[d] = Expected(d, disk)

\* C25 case: the rules Load has returned the error of IndexDocument after it
\* appended the rule it could not index.
C25_RulesLoadFailedOnIndexing ==
    /\ LoadReturned("rules")
    /\ ld.err = "index"
    /\ coll["rules"] # <<>>
    /\ ~(CollIds("rules") \subseteq DocIds("rules"))


\* C26: every SearchManager operation called with a type that has no index
\* returns the not-found error, and the type has no index afterwards.
C26_UnknownTypeNotFound ==
    \A c \in Callers :
        (sm.call[c].pc = "returned" /\ ~sm.call[c].existed) =>
            /\ sm.call[c].ret = "notfound"
            /\ sm.call[c].name \notin Indexed

\* C26 case: ReindexAll of a type without an index returned nil and the map
\* has an index under that type.
C26_ReindexAllCreatedIndex ==
    \E c \in Callers :
        /\ sm.call[c].pc = "returned"
        /\ sm.call[c].op = "reindexAll"
        /\ sm.call[c].name = "nosuch"
        /\ sm.call[c].ret = "ok"
        /\ "nosuch" \in Indexed

\* C27: no SearchManager call waits for the mutex while a call on another
\* type holds it.
C27_NoWaitAcrossTypes ==
    \A c, o \in Callers :
        ~(/\ c # o
          /\ sm.call[c].pc = "want"
          /\ sm.mu = o
          /\ sm.call[o].name # sm.call[c].name)

\* C27 case: a Search of the rules index waits at sm.mu.RLock() while
\* ReindexAll of the history index holds the mutex.
C27_SearchWaitsForOtherReindex ==
    /\ sm.call[1].pc = "want"
    /\ sm.call[1].op = "search"
    /\ sm.call[1].name = "rules"
    /\ sm.mu = 2
    /\ sm.call[2].op = "reindexAll"
    /\ sm.call[2].name = "history"


\* C28: when watcher.Add fails for a directory, Start still returns nil with
\* the watch loop running, and the loop takes every relevant event of a
\* registered directory to a reload.
C28_StartSurvivesWatchFailure ==
    /\ [](watch.addFailed # {} =>
             (watch.started = "nil" /\ wpc \in {"select", "reload"}))
    /\ (/\ watch.addFailed # {}
        /\ wpc = "select"
        /\ events # <<>>
        /\ isRelevantEvent(Head(events))) ~> (wpc = "reload")

\* C28 case: Start could not watch the rules directory, and the loop it
\* started is in the reload that a write in the history directory raised.
C28_ReloadWithRulesUnwatched ==
    /\ watch.started = "nil"
    /\ "rules" \in watch.addFailed
    /\ "history" \in watch.dirs
    /\ wpc = "reload"
    /\ hist.reloads = 1


C30_CollectionReadUnderLock ==
    rd.pc = "resolved" => ~rd.inLoad

\* C30 case: the rules tool handler resolved two hits against the collection
\* while the rules Load had appended one rule, and found one record.
C30_HitsResolvedDuringLoad ==
    /\ rd.pc = "resolved"
    /\ rd.d = "rules"
    /\ rd.inLoad
    /\ Cardinality(rd.hits) = 2
    /\ Len(rd.res) = 1

\* C31: every write to the index of a domain is made under the exclusive lock
\* of the store that owns it: a point mutation writes it only while no Load of
\* that store holds the lock, and a Load writes only the index of the store
\* whose lock it holds or takes in that step
C31_IndexWrittenUnderStoreLock ==
    [][\A d \in Domains :
          idx'[d] # idx[d] =>
              IF nMut' # nMut
              THEN ~wlock[d] /\ ld' = ld
              ELSE /\ wpc = "reload"
                   /\ LoadOrder[ld.i] = d
                   /\ (wlock[d] \/ (ld.pc = "call" /\ LockFree(d)))]_vars

\* C31 case: AddEntry has indexed its entry while the Load of another store
\* holds that store's lock
C31_EntryIndexedDuringOtherLoad ==
    /\ nMut = 1
    /\ \E x \in DocsOf("history") : x.id = <<"history", EntryFile(1)>>
    /\ \E d \in Domains \ {"history"} : wlock[d]

\* C32: a reload started by the watcher runs on a task of its own, so that
\* the watch loop is at its select, waiting for events and for cancellation,
\* while a Load of that reload runs
C32_LoopWaitsWhileReloadRuns ==
    ld.pc # "none" => wpc = "select"

\* C32 case: the context was cancelled and an event is queued while a Load
\* holds its lock, and the loop is inside ReloadData
C32_CancelledInsideReload ==
    /\ wpc = "reload"
    /\ \E d \in Domains : wlock[d]
    /\ watch.done
    /\ events # <<>>

\* C33: no interleaving of reloads and reads deadlocks: while a
\* ValidateQuery is in progress beside a Load that waits for the exclusive
\* lock, one of the two can take its next step (so each eventually returns)
C33_ValidateQueryAndLoadProceed ==
    (rd.pc = "held" /\ WriterPending("database")) =>
        ENABLED (GetTableByName \/ GetTableByNameReturn \/ ValidateReturn \/ LoadBegin)

\* C33 case: ValidateQuery holds the read lock and is about to call
\* GetTableByName while DatabaseHandler.Load waits in mu.Lock()
C33_NestedReadLockBehindWriter ==
    /\ rd.pc = "held" /\ rd.d = "database"
    /\ rd.res # <<>> /\ ~rd.nested
    /\ WriterPending("database")

\* C34: no index, search or document-count operation is executed on an index
\* handle that ReindexAll has closed: none returns the error of a closed index
C34_NoOperationOnClosedIndex ==
    \A c \in Callers :
        sm.call[c].op \in {"index", "search", "searchWithFilters", "documentCount"}
            => sm.call[c].ret # "closed"

\* C34 case: SearchWithFilters looked the rules index up, ReindexAll of the
\* rules replaced it without error, and the search ran on the closed handle
C34_SearchOnReplacedIndex ==
    /\ sm.call[1].op = "searchWithFilters"
    /\ sm.call[1].name = "rules"
    /\ sm.call[1].ret = "closed"
    /\ sm.call[2].op = "reindexAll"
    /\ sm.call[2].name = "rules"
    /\ sm.call[2].ret = "ok"

\* C35: at most one reload is in progress at any time: ReloadData is entered
\* only while no loadAllData is running, neither that of an earlier reload nor
\* the startup one, and no store lock is held by a Load
C35_OneReloadAtATime ==
    [][hist'.reloads # hist.reloads =>
          /\ wpc = "select"
          /\ ld = IdleLoad
          /\ \A d \in Domains : ~wlock[d]]_vars

\* C35 case: a history file was written before the monitor watched its
\* directory (during the startup load or just after it) and again after
\* Start, and the one reload the second write started is in a Load
C35_ReloadAfterStartupLoad ==
    /\ nChanges = 2
    /\ "history" \in watch.dirs
    /\ events = <<>>
    /\ hist.relevant = 1
    /\ hist.reloads = 1
    /\ wpc = "reload"
    /\ \E d \in Domains : wlock[d]

\* C36: a successful UpdateTodoStatus is not lost to a reload: once the call
\* has returned success and the reload has finished, the targeted todo has
\* the completion value of the call in memory, in its file and in the index
C36_UpdateSurvivesReload ==
    (tf.ret = "ok" /\ tf.reloaded) =>
        LET i == FindTodo(tf.todos, tf.arg.id)
            j == FindTodo(Reparsed, tf.arg.id)
        IN  /\ i # 0 /\ tf.todos[i].val = tf.arg.val
            /\ j # 0 /\ Reparsed[j].val = tf.arg.val
            /\ \E x \in tf.docs : x.id = tf.arg.id /\ x.val = tf.arg.val

\* C36 case: the call returned success, the reload has run, and memory, file
\* and index all hold the targeted todo with the value it had before the call
C36_UpdateLostEverywhere ==
    /\ tf.ret = "ok"
    /\ tf.reloaded
    /\ LET i == FindTodo(tf.todos, tf.arg.id)
           j == FindTodo(Reparsed, tf.arg.id)
       IN  /\ i # 0 /\ tf.todos[i].val # tf.arg.val
           /\ j # 0 /\ Reparsed[j].val # tf.arg.val
           /\ \E x \in tf.docs : x.id = tf.arg.id /\ x.val # tf.arg.val

\* C37: after AddEntry or CreateBackup has succeeded and the reload started
\* by its own file write has completed, the collection and the index of the
\* store hold the records they held right after the mutation; in particular
\* the new record is there exactly once, under the identifier it was given
C37_NewRecordKeptByOwnReload ==
    LET added == {<<"history", <<"history", EntryFile(1)>>>>,
                  <<"backups", <<"backups", <<"n", Digits[1]>>>>>>}
        saved(a) == IF a[1] = "history"
                    THEN disk["history"][EntryFile(1)].st = "ok"
                    ELSE /\ disk["backups"][MetadataJson].st = "ok"
                         /\ a[2] \in SeqIds(disk["backups"][MetadataJson].c)
    IN  \A a \in added :
            (nMut = 1 /\ saved(a) /\ hist.reloads > 0 /\ wpc = "select" /\ events = <<>>)
                => /\ Cardinality({i \in 1..Len(coll[a[1]]) : coll[a[1]][i].id = a[2]}) = 1
                   /\ \E x \in DocsOf(a[1]) : x.id = a[2]

\* C37 case: AddEntry wrote, stored and indexed its entry; the reload its
\* Create event started failed in HistoryHandler.Load, the only fault of the
\* run, and the store has no entry while the file is on disk
C37_EntryLostInOwnReload ==
    /\ nMut = 1
    /\ disk["history"][EntryFile(1)].st = "ok"
    /\ hist.reloads = 1
    /\ wpc = "select" /\ events = <<>>
    /\ hist.result = "error" /\ LoadOrder[hist.failed] = "history"
    /\ nFaults = 1
    /\ coll["history"] = <<>>

\* C38: a reload produces no file event of its own: no step of loadAllData
\* adds to the queue of the watcher, so the reloads are as many as the
\* changes and mutations made them, and in the end the loop sits at its
\* select with nothing queued
C38_ReloadRaisesNoEvent ==
    /\ [][ld' # ld => Len(events') <= Len(events)]_vars
    /\ <>[](wpc = "select" /\ events = <<>> /\ ld = IdleLoad)

\* C38 case: two file changes were made, two reloads have rebuilt every
\* index, and the loop is idle
C38_IdleAfterTwoReloads ==
    /\ nChanges = 2
    /\ hist.reloads = 2
    /\ hist.result = "ok"
    /\ wpc = "select"
    /\ events = <<>>

\* C39: whatever the source files hold, after a Load that returned nil no two
\* records of the collection it filled have the same identifier
C39_IdentifiersDistinctAfterLoad ==
    (wpc = "reload" /\ ld.pc = "ret" /\ ld.err = "none") =>
        LET recs == coll[LoadOrder[ld.i]]
        IN  \A i, j \in 1..Len(recs) : recs[i].id = recs[j].id => i = j

\* C39 case: BackupHandler.Load returned nil over a metadata.json that lists
\* two different backups under one id, and the collection holds both
C39_TwoBackupsOneIdentifier ==
    /\ wpc = "reload" /\ ld.pc = "ret" /\ ld.err = "none"
    /\ LoadOrder[ld.i] = "backups"
    /\ Len(coll["backups"]) = 2
    /\ coll["backups"][1].id = coll["backups"][2].id
    /\ coll["backups"][1] # coll["backups"][2]

\* C40: during a Load the collection of the store changes once, from the set
\* it held before to the complete newly parsed set, and only when all parsing
\* is done: as long as the Load holds the lock and is still at work, the
\* collection is the one from before the Load
C40_CollectionSwappedAtEnd ==
    \A d \in Domains : wlock[d] => coll[d] = hist.preColl

\* C40 case: RulesHandler.Load holds the lock and has parsed the first of two
\* rule files; the collection, which held two rules, holds one
C40_RulesHalfFilled ==
    /\ wlock["rules"]
    /\ ld.pc = "files"
    /\ Len(hist.preColl) = 2
    /\ Len(coll["rules"]) = 1
    /\ Len(ld.list) = 1

====
